---- MODULE Spec2Model ----
(***************************************************************************)
(* Storefront cart, pricing and member-auth logic of haven-game-credits.    *)
(*   src/src/hooks/useCart.ts               cart store + cart price resolver *)
(*   src/src/components/MenuItemCard.tsx    catalog price resolver           *)
(*   src/src/context/MemberAuthContext.tsx  register / login / logout        *)
(*                                                                         *)
(* JavaScript values that may be absent are numbers here: a price or a      *)
(* quantity is a natural number, `undefined` is Undef and `null` is Null.   *)
(***************************************************************************)
EXTENDS Integers, Sequences, FiniteSets, TLC

\* ---------------------------------------------------------------- values
\* JavaScript `undefined` (an optional field or argument that is not there).
Undef == 0 - 1
\* JavaScript `null` (a nullable backend column that holds no value).
Null == 0 - 2

\* x == null / x != null in JavaScript: true of both null and undefined.
IsNullish(x) == x = Undef \/ x = Null

\* (x || 1) on a quantity: 0, undefined and null are falsy.
OrOne(x) == IF IsNullish(x) \/ x = 0 THEN 1 ELSE x

\* (x ?? 1) on a quantity: only undefined and null are replaced.
CoalesceOne(x) == IF IsNullish(x) THEN 1 ELSE x

\* ---------------------------------------------------------------- bounds
\* Longest add-on list handed to normalizeAddOns on its own.
MaxAddOnLen == 3

\* ---------------------------------------------------------------- add-ons
\* Add-on ids in localeCompare order, and the price the catalog gives each.
AddOnIds == <<"a", "b">>
AddOnPrice == [a |-> 5, b |-> 7]
AddOnIdSet == {AddOnIds[i] : i \in 1..Len(AddOnIds)}

\* a.id.localeCompare(b.id) < 0
IdRank(id) == CHOOSE i \in 1..Len(AddOnIds) : AddOnIds[i] = id
IdBefore(x, y) == IdRank(x) < IdRank(y)

\* The quantity an AddOn entry may carry: none (a flat entry), 1 or 2.
AddOnQtys == {Undef, 1, 2}
AddOnEntries ==
  {[id |-> i, price |-> AddOnPrice[i], quantity |-> q] : i \in AddOnIdSet, q \in AddOnQtys}

SeqsUpTo(S, n) == UNION {[1..k -> S] : k \in 0..n}

\* Array.prototype.sort with the comparator of normalizeAddOns (stable
\* insertion of each element behind the entries that do not sort after it).
RECURSIVE InsertById(_, _)
InsertById(sorted, e) ==
  IF sorted = <<>> THEN <<e>>
  ELSE IF IdBefore(e.id, Head(sorted).id) THEN <<e>> \o sorted
  ELSE <<Head(sorted)>> \o InsertById(Tail(sorted), e)

RECURSIVE SortById(_)
SortById(s) ==
  IF s = <<>> THEN <<>>
  ELSE InsertById(SortById(SubSeq(s, 1, Len(s) - 1)), s[Len(s)])

\* One step of the reduce in normalizeAddOns: a repeated id adds 1 to the
\* entry already grouped, a new id is pushed with quantity (quantity || 1).
GroupStep(acc, addOn) ==
  IF \E i \in 1..Len(acc) : acc[i].id = addOn.id
  THEN [i \in 1..Len(acc) |->
          IF acc[i].id = addOn.id
          THEN [acc[i] EXCEPT !.quantity = OrOne(@) + 1]
          ELSE acc[i]]
  ELSE Append(acc, [addOn EXCEPT !.quantity = OrOne(@)])

RECURSIVE Grouped(_)
Grouped(addOns) ==
  IF addOns = <<>> THEN <<>>
  ELSE GroupStep(Grouped(SubSeq(addOns, 1, Len(addOns) - 1)), addOns[Len(addOns)])

\* normalizeAddOns: an absent or empty list gives [], otherwise group by id
\* and sort by id.  (An absent list is the empty sequence here.)
normalizeAddOns(addOns) ==
  IF addOns = <<>> THEN <<>> ELSE SortById(Grouped(addOns))

\* ---------------------------------------------------------------- catalog
\* Member | null.  Only id, status and user_type are read by the storefront;
\* NoMember is the null member (a guest).
NoMember ==
  [id |-> 0, username |-> "", email |-> "", password_hash |-> "",
   status |-> "", user_type |-> ""]

\* Variation | undefined.  NoVariation is the absent variation.
NoVariation ==
  [id |-> "undefined", price |-> 0, member_price |-> Undef, reseller_price |-> Undef]
HasVariation(v) == v # NoVariation

\* The catalog the cart is filled from: g1 sells two packages, g2 none.
G1 == [id |-> "g1", basePrice |-> 0, isOnDiscount |-> FALSE, discountPercentage |-> Undef]
G2 == [id |-> "g2", basePrice |-> 10, isOnDiscount |-> FALSE, discountPercentage |-> Undef]
V1 == [id |-> "v1", price |-> 100, member_price |-> 90, reseller_price |-> 80]
V2 == [id |-> "v2", price |-> 200, member_price |-> Undef, reseller_price |-> Null]

MenuItems == {G1, G2}
VariationsOf(menuItemId) == IF menuItemId = "g1" THEN {V1, V2} ELSE {}

\* ------------------------------------------------- cart price resolver
\* getVariationPriceForMember
getVariationPriceForMember(variation, currentMember) ==
  IF currentMember = NoMember THEN variation.price
  ELSE IF currentMember.user_type = "reseller" /\ ~IsNullish(variation.reseller_price)
    THEN variation.reseller_price
  ELSE IF currentMember.user_type = "end_user" /\ ~IsNullish(variation.member_price)
    THEN variation.member_price
  ELSE variation.price

\* addOns.forEach(addOn => price += (addOn.quantity ?? 1) * addOn.price)
RECURSIVE AddOnsPrice(_)
AddOnsPrice(addOns) ==
  IF addOns = <<>> THEN 0
  ELSE CoalesceOne(Head(addOns).quantity) * Head(addOns).price + AddOnsPrice(Tail(addOns))

\* calculateItemPrice (item may be a MenuItem or a CartItem: basePrice is read)
calculateItemPrice(item, variation, addOns, currentMember) ==
  item.basePrice
  + (IF HasVariation(variation) THEN getVariationPriceForMember(variation, currentMember) ELSE 0)
  + AddOnsPrice(addOns)

\* getEffectiveUnitPrice
\* (faulty variant: the override price is not looked at)
getEffectiveUnitPriceNoOverride(cartItem, currentMember) ==
  calculateItemPrice(cartItem, cartItem.selectedVariation, cartItem.selectedAddOns, currentMember)

getEffectiveUnitPrice(cartItem, currentMember) ==
  IF ~IsNullish(cartItem.effectiveUnitPriceOverride)
  THEN cartItem.effectiveUnitPriceOverride
  ELSE calculateItemPrice(cartItem, cartItem.selectedVariation, cartItem.selectedAddOns,
                          currentMember)

\* getTotalPrice: cartItems.reduce((total, item) => total + unit * quantity, 0)
RECURSIVE getTotalPrice(_, _)
getTotalPrice(items, currentMember) ==
  IF items = <<>> THEN 0
  ELSE getTotalPrice(SubSeq(items, 1, Len(items) - 1), currentMember)
       + getEffectiveUnitPrice(items[Len(items)], currentMember) * items[Len(items)].quantity

\* ---------------------------------------------------------- cart store
\* A cart line id is `${item.id}:::CART:::${Date.now()}-${random}`: the pair
\* of the menu item id and a suffix no other line was given.
uniqueId(menuItemId, suffix) == <<menuItemId, suffix>>

\* cartItem.id.split(':::CART:::')[0]
originalMenuItemId(cartItemId) == cartItemId[1]

\* createItemKey: `${menuItemId}|${variationKey}|${addOnsKey}`.  The add-ons
\* key joins the sorted `${id}:${quantity}` strings of the normalized list;
\* its entries have distinct ids, so it is the set of their (id, quantity)
\* pairs, and 'none' for the empty list is the empty set.
\* (faulty variant: the add-ons are keyed as passed, not normalized)
createItemKeyRaw(menuItemId, selectedVariation, selectedAddOns) ==
  <<menuItemId,
    IF HasVariation(selectedVariation) THEN selectedVariation.id ELSE "none",
    {<<selectedAddOns[i].id, selectedAddOns[i].quantity>> : i \in 1..Len(selectedAddOns)}>>

createItemKey(menuItemId, selectedVariation, selectedAddOns) ==
  LET norm == normalizeAddOns(selectedAddOns) IN
  <<menuItemId,
    IF HasVariation(selectedVariation) THEN selectedVariation.id ELSE "none",
    {<<norm[i].id, norm[i].quantity>> : i \in 1..Len(norm)}>>

\* prev.find(...) of addToCart: the index of the first line with the key, 0 if none.
existingItem(prev, newItemKey) ==
  LET hits == {i \in 1..Len(prev) :
                 createItemKey(originalMenuItemId(prev[i].id), prev[i].selectedVariation,
                               prev[i].selectedAddOns) = newItemKey}
  IN IF hits = {} THEN 0 ELSE CHOOSE i \in hits : \A j \in hits : i <= j

\* (faulty variant: a merge also takes the price of the call)
addToCartReprices(prev, item, quantity, variation, addOns, effectiveUnitPrice, currentMember, suffix) ==
  LET totalPrice == IF ~IsNullish(effectiveUnitPrice) THEN effectiveUnitPrice
                    ELSE calculateItemPrice(item, variation, addOns, currentMember)
      found == existingItem(prev, createItemKey(item.id, variation, addOns))
  IN IF found # 0
     THEN [i \in 1..Len(prev) |->
             IF i = found
             THEN [prev[i] EXCEPT !.quantity = @ + quantity, !.totalPrice = totalPrice]
             ELSE prev[i]]
     ELSE <<[id |-> uniqueId(item.id, suffix),
             basePrice |-> item.basePrice,
             isOnDiscount |-> item.isOnDiscount,
             discountPercentage |-> item.discountPercentage,
             quantity |-> quantity,
             selectedVariation |-> variation,
             selectedAddOns |-> normalizeAddOns(addOns),
             totalPrice |-> totalPrice,
             effectiveUnitPriceOverride |->
               IF ~IsNullish(effectiveUnitPrice) THEN effectiveUnitPrice ELSE Undef]>>
          \o prev

\* (faulty variant: a new line goes to the end of the cart)
addToCartAppends(prev, item, quantity, variation, addOns, effectiveUnitPrice, currentMember, suffix) ==
  LET totalPrice == IF ~IsNullish(effectiveUnitPrice) THEN effectiveUnitPrice
                    ELSE calculateItemPrice(item, variation, addOns, currentMember)
      found == existingItem(prev, createItemKey(item.id, variation, addOns))
  IN IF found # 0
     THEN [i \in 1..Len(prev) |->
             IF i = found THEN [prev[i] EXCEPT !.quantity = @ + quantity] ELSE prev[i]]
     ELSE prev \o
          <<[id |-> uniqueId(item.id, suffix),
             basePrice |-> item.basePrice,
             isOnDiscount |-> item.isOnDiscount,
             discountPercentage |-> item.discountPercentage,
             quantity |-> quantity,
             selectedVariation |-> variation,
             selectedAddOns |-> normalizeAddOns(addOns),
             totalPrice |-> totalPrice,
             effectiveUnitPriceOverride |->
               IF ~IsNullish(effectiveUnitPrice) THEN effectiveUnitPrice ELSE Undef]>>

\* addToCart: the state updater, for the member the callback was built for
\* and the suffix drawn for a new line.
addToCart(prev, item, quantity, variation, addOns, effectiveUnitPrice, currentMember, suffix) ==
  LET totalPrice == IF ~IsNullish(effectiveUnitPrice) THEN effectiveUnitPrice
                    ELSE calculateItemPrice(item, variation, addOns, currentMember)
      groupedAddOns == normalizeAddOns(addOns)
      found == existingItem(prev, createItemKey(item.id, variation, addOns))
  IN IF found # 0
     THEN [i \in 1..Len(prev) |->
             IF i = found THEN [prev[i] EXCEPT !.quantity = @ + quantity] ELSE prev[i]]
     ELSE <<[id |-> uniqueId(item.id, suffix),
             basePrice |-> item.basePrice,
             isOnDiscount |-> item.isOnDiscount,
             discountPercentage |-> item.discountPercentage,
             quantity |-> quantity,
             selectedVariation |-> variation,
             selectedAddOns |-> groupedAddOns,
             totalPrice |-> totalPrice,
             effectiveUnitPriceOverride |->
               IF ~IsNullish(effectiveUnitPrice) THEN effectiveUnitPrice ELSE Undef]>>
          \o prev

\* removeFromCart: prev.filter(item => item.id !== id)
RECURSIVE removeFromCart(_, _)
removeFromCart(prev, id) ==
  IF prev = <<>> THEN <<>>
  ELSE IF Head(prev).id = id THEN removeFromCart(Tail(prev), id)
  ELSE <<Head(prev)>> \o removeFromCart(Tail(prev), id)

\* updateQuantity: quantity <= 0 removes, otherwise the lines with the id
\* get the quantity.
\* (faulty variant: a quantity <= 0 is stored like any other)
updateQuantityNoRemove(prev, id, quantity) ==
  [i \in 1..Len(prev) |->
     IF prev[i].id = id THEN [prev[i] EXCEPT !.quantity = quantity] ELSE prev[i]]

updateQuantity(prev, id, quantity) ==
  IF quantity <= 0 THEN removeFromCart(prev, id)
  ELSE [i \in 1..Len(prev) |->
          IF prev[i].id = id THEN [prev[i] EXCEPT !.quantity = quantity] ELSE prev[i]]


\* ------------------------------------------------------ cart persistence
\* The localStorage entry amber_cartItems: not there (getItem gives null),
\* the empty text, a text JSON.parse rejects, or a JSON text, held as the
\* value it parses to.
NoEntry == [kind |-> "missing", value |-> <<>>]
EmptyText == [kind |-> "empty", value |-> <<>>]
UnparseableText == [kind |-> "unparseable", value |-> <<>>]
JsonText(value) == [kind |-> "json", value |-> value]

\* JSON values: an array with its elements, null, an object that is no array.
JsonArray(items) == [type |-> "array", items |-> items]
JsonNull == [type |-> "null", items |-> <<>>]
JsonObject == [type |-> "object", items |-> <<>>]

\* JSON.stringify leaves out the properties whose value is undefined.
stringifyVariation(variation) ==
  [f \in {g \in DOMAIN variation :
            ~(g \in {"member_price", "reseller_price"} /\ variation[g] = Undef)}
     |-> variation[f]]

stringifyAddOn(addOn) ==
  [f \in {g \in DOMAIN addOn : ~(g = "quantity" /\ addOn[g] = Undef)} |-> addOn[f]]

stringifyLine(line) ==
  [f \in {g \in DOMAIN line :
            /\ ~(g \in {"discountPercentage", "effectiveUnitPriceOverride"} /\ line[g] = Undef)
            /\ ~(g = "selectedVariation" /\ ~HasVariation(line[g]))}
     |-> IF f = "selectedVariation" THEN stringifyVariation(line[f])
         ELSE IF f = "selectedAddOns"
           THEN [i \in 1..Len(line[f]) |-> stringifyAddOn(line[f][i])]
         ELSE line[f]]

\* JSON.stringify(cartItems)
stringify(items) == JsonText(JsonArray([i \in 1..Len(items) |-> stringifyLine(items[i])]))

\* A parsed object as the cart reads it: a property that is not there reads
\* as undefined.
readVariation(object) ==
  [f \in DOMAIN object \cup {"member_price", "reseller_price"} |->
     IF f \in DOMAIN object THEN object[f] ELSE Undef]

readAddOn(object) ==
  [f \in DOMAIN object \cup {"quantity"} |-> IF f \in DOMAIN object THEN object[f] ELSE Undef]

readLine(object) ==
  [f \in DOMAIN object
         \cup {"discountPercentage", "effectiveUnitPriceOverride", "selectedVariation"} |->
     IF f \notin DOMAIN object
     THEN (IF f = "selectedVariation" THEN NoVariation ELSE Undef)
     ELSE IF f = "selectedVariation" THEN readVariation(object[f])
     ELSE IF f = "selectedAddOns"
       THEN [i \in 1..Len(object[f]) |-> readAddOn(object[f][i])]
     ELSE object[f]]

\* JSON.parse of a JSON text: its value.
parse(entry) ==
  IF entry.value.type = "array"
  THEN JsonArray([i \in 1..Len(entry.value.items) |-> readLine(entry.value.items[i])])
  ELSE entry.value

\* The useState initializer of cartItems: the parsed entry when getItem gives
\* a non-empty text that parses, [] when it gives null or '' or when
\* JSON.parse throws (caught).
loadCartItems(entry) ==
  IF entry.kind = "json" THEN parse(entry) ELSE JsonArray(<<>>)

\* The component before it mounts.
Unmounted == [type |-> "unmounted", items |-> <<>>]
\* ----------------------------------------------- catalog price resolver
\* JavaScript truthiness of a cached price: absent, null and 0 are falsy.
Truthy(x) == ~(IsNullish(x) \/ x = 0)

\* ToNumber in an addition: null counts as 0.
ToNumber(x) == IF x = Null THEN 0 ELSE x

\* getVariationById: item.variations.find(v => v.id === variationId)
getVariationById(variations, variationId) ==
  IF \E v \in variations : v.id = variationId
  THEN CHOOSE v \in variations : v.id = variationId
  ELSE NoVariation

\* isReseller(): currentMember?.user_type === 'reseller'
isReseller(currentMember) == currentMember # NoMember /\ currentMember.user_type = "reseller"

\* getDiscountedPriceSync(basePrice, variationId) of the card of `item`, whose
\* variations are `variations` and whose cached negotiated prices are
\* `discounts`.  discountPercentage is held in hundredths (25 is 0.25).
\* (faulty variant: the cached negotiated price is looked at first)
getDiscountedPriceSyncCacheFirst(item, variations, discounts, currentMember, basePrice, variationId) ==
  IF isReseller(currentMember) /\ Truthy(discounts[variationId])
  THEN discounts[variationId]
  ELSE basePrice

getDiscountedPriceSync(item, variations, discounts, currentMember, basePrice, variationId) ==
  LET variation == getVariationById(variations, variationId) IN
  IF /\ isReseller(currentMember)
     /\ HasVariation(variation)
     /\ variation.reseller_price # Undef
  THEN variation.reseller_price
  ELSE IF /\ currentMember # NoMember
          /\ ~isReseller(currentMember)
          /\ currentMember.user_type = "end_user"
          /\ HasVariation(variation)
          /\ variation.member_price # Undef
  THEN variation.member_price
  ELSE IF isReseller(currentMember) /\ Truthy(discounts[variationId])
  THEN discounts[variationId]
  ELSE IF item.isOnDiscount /\ item.discountPercentage # Undef
  THEN basePrice - (basePrice * item.discountPercentage) \div 100
  ELSE basePrice

\* ------------------------------------------------------------ member auth
\* localStorage holds no member_id.
NoId == 0

\* hashPassword: the SHA-256 hex digest, one digest per password.
hashPassword(password) ==
  CASE password = "p1" -> "h1"
    [] password = "p2" -> "h2"
    [] OTHER -> "h0"

\* verifyPassword
\* (faulty variant: every password is accepted)
verifyPasswordAcceptsAll(password, hash) == TRUE

verifyPassword(password, hash) == hashPassword(password) = hash

\* .single(): the one row of a result, null (NoMember) unless there is
\* exactly one row.
single(rows) == IF Cardinality(rows) = 1 THEN CHOOSE m \in rows : TRUE ELSE NoMember

\* from('members').select('*').eq('email', email)
membersByEmail(table, email) == {m \in table : m.email = email}

\* from('members').select('id').eq('username', username)
\* (faulty variant: the username is looked up in the email column)
membersByUsernameLooksUpEmail(table, username) == {m \in table : m.email = username}

membersByUsername(table, username) == {m \in table : m.username = username}

\* from('members').select('*').eq('id', memberId).eq('status', 'active')
\* (faulty variant: the status filter is missing)
activeMembersByIdAnyStatus(table, memberId) == {m \in table : m.id = memberId}

activeMembersById(table, memberId) == {m \in table : m.id = memberId /\ m.status = "active"}

\* The row register inserts.
newMemberRow(id, username, email, password) ==
  [id |-> id, username |-> username, email |-> email,
   password_hash |-> hashPassword(password), status |-> "active", user_type |-> "end_user"]

\* A login or register call that has not been made.
IdleCall ==
  [pc |-> "idle", username |-> "", email |-> "", password |-> "", member |-> NoMember,
   result |-> "none"]

\* A call that has returned: what it returned.
Done(result) == [IdleCall EXCEPT !.pc = "done", !.result = result]

\* ------------------------------------------------------------- Checkout
\* getOriginalMenuItemId: cartItemId.split(':::CART:::')[0]
getOriginalMenuItemId(cartItemId) == cartItemId[1]

\* The indexes of the cart lines of a game, first line first.
LinesOfGame(cart, gameId) ==
  {i \in 1..Len(cart) : getOriginalMenuItemId(cart[i].id) = gameId}

\* cartItems.find(item => getOriginalMenuItemId(item.id) === gameId)
firstItem(cart, gameId) ==
  cart[CHOOSE i \in LinesOfGame(cart, gameId) : \A j \in LinesOfGame(cart, gameId) : i <= j]

\* itemsWithCustomFields: the lines that have custom fields, one per menu
\* item (the first), in cart order. A line without customFields has the
\* empty sequence.
itemsWithCustomFields(cart) ==
  LET withFields == {i \in 1..Len(cart) : Len(cart[i].customFields) > 0}
      isFirst(i) == \A j \in withFields :
                      getOriginalMenuItemId(cart[j].id) = getOriginalMenuItemId(cart[i].id)
                        => i <= j
  IN SelectSeq(cart, LAMBDA line :
       \E i \in withFields : cart[i] = line /\ isFirst(i))

hasAnyCustomFields(cart) == Len(itemsWithCustomFields(cart)) > 0

\* hasMultiplePackagesForSameGame: some game has lines of two or more
\* different variations.
hasMultiplePackagesForSameGame(cart) ==
  \E i \in 1..Len(cart) :
    LET variations ==
          {cart[j].selectedVariation.id :
             j \in {k \in LinesOfGame(cart, getOriginalMenuItemId(cart[i].id)) :
                      HasVariation(cart[k].selectedVariation)}}
    IN Cardinality(variations) >= 2

\* item.selectedVariation?.id || 'default'
variationIdOrDefault(line) ==
  IF HasVariation(line.selectedVariation) THEN line.selectedVariation.id ELSE "default"

\* itemsByGameAndVariation: the (game, variation) groups of the cart, null
\* outside multiple-accounts mode (the empty set here; every use tests
\* useMultipleAccounts first).
itemsByGameAndVariation(cart, useMultiple) ==
  IF useMultiple
  THEN {<<getOriginalMenuItemId(cart[i].id), variationIdOrDefault(cart[i])>> : i \in 1..Len(cart)}
  ELSE {}

\* The keys of customFieldValues.
singleKey(originalId, fieldKey) == originalId \o "_" \o fieldKey
multiKey(originalId, variationId, fieldKey) ==
  originalId \o "_" \o variationId \o "_" \o fieldKey
defaultIgnKey == "default_ign"
multiDefaultIgnKey(gameId, variationId) == "default_" \o gameId \o "_" \o variationId \o "_ign"

\* String.prototype.trim on the texts typed here.
trim(text) ==
  CASE text = " " -> ""
    [] text = " x" -> "x"
    [] OTHER -> text

\* customFieldValues[valueKey]?.trim() || false
\* (faulty variant: the value is not trimmed)
hasTrimmedValueNoTrim(values, valueKey) ==
  valueKey \in DOMAIN values /\ values[valueKey] # ""

hasTrimmedValue(values, valueKey) ==
  valueKey \in DOMAIN values /\ trim(values[valueKey]) # ""

\* isDetailsValid
isDetailsValid(cart, values, useMultiple) ==
  IF useMultiple
  THEN IF hasAnyCustomFields(cart)
       THEN \A gv \in itemsByGameAndVariation(cart, useMultiple) :
              LET first == firstItem(cart, gv[1]) IN
              \A f \in 1..Len(first.customFields) :
                first.customFields[f].required =>
                  hasTrimmedValue(values,
                    multiKey(getOriginalMenuItemId(first.id), gv[2], first.customFields[f].key))
       ELSE \A gv \in itemsByGameAndVariation(cart, useMultiple) :
              hasTrimmedValue(values, multiDefaultIgnKey(gv[1], gv[2]))
  ELSE IF ~hasAnyCustomFields(cart)
       THEN hasTrimmedValue(values, defaultIgnKey)
       ELSE \A n \in 1..Len(itemsWithCustomFields(cart)) :
              LET item == itemsWithCustomFields(cart)[n] IN
              \A f \in 1..Len(item.customFields) :
                item.customFields[f].required =>
                  hasTrimmedValue(values,
                    singleKey(getOriginalMenuItemId(item.id), item.customFields[f].key))

\* { ...prev, ...updates }
Spread(prev, updates) ==
  [k \in DOMAIN prev \cup DOMAIN updates |->
     IF k \in DOMAIN updates THEN updates[k] ELSE prev[k]]

\* {}
EmptyValues == [k \in {} |-> ""]

\* { ...prev, [valueKey]: value }
WithValue(prev, valueKey, value) ==
  [k \in DOMAIN prev \cup {valueKey} |-> IF k = valueKey THEN value ELSE prev[k]]

\* The input fields the details step renders, by their value keys.
detailsInputKeys(cart, useMultiple) ==
  IF useMultiple /\ hasAnyCustomFields(cart)
  THEN UNION {{multiKey(gv[1], gv[2], firstItem(cart, gv[1]).customFields[f].key) :
                 f \in 1..Len(firstItem(cart, gv[1]).customFields)} :
              gv \in itemsByGameAndVariation(cart, useMultiple)}
  ELSE IF hasAnyCustomFields(cart)
  THEN UNION {{singleKey(getOriginalMenuItemId(itemsWithCustomFields(cart)[n].id),
                         itemsWithCustomFields(cart)[n].customFields[f].key) :
                 f \in 1..Len(itemsWithCustomFields(cart)[n].customFields)} :
              n \in 1..Len(itemsWithCustomFields(cart))}
  ELSE IF ~useMultiple
  THEN {defaultIgnKey}
  ELSE {multiDefaultIgnKey(gv[1], gv[2]) : gv \in itemsByGameAndVariation(cart, useMultiple)}

\* loadedValues[valueKey] = value, for a sequence of <<valueKey, value>> writes
\* in order.
RECURSIVE ApplyWrites(_, _)
ApplyWrites(values, writes) ==
  IF writes = <<>> THEN values
  ELSE ApplyWrites(WithValue(values, Head(writes)[1], Head(writes)[2]), Tail(writes))

\* fields[label], '' when absent.
FieldOf(fields, label) == IF label \in DOMAIN fields THEN fields[label] ELSE ""

\* checkExistingOrder, one account of a rejected order's 'Multiple Accounts'
\* list: its values go to the first cart line with the account's game and
\* package names, under that line's keys; empty values are skipped.
accountWrites(cart, account) ==
  LET matching == {i \in 1..Len(cart) :
                     /\ cart[i].name = account.game
                     /\ HasVariation(cart[i].selectedVariation)
                     /\ cart[i].selectedVariation.name = account.package}
      matchingItem == cart[CHOOSE i \in matching : \A j \in matching : i <= j]
      originalId == getOriginalMenuItemId(matchingItem.id)
      variationId == variationIdOrDefault(matchingItem)
  IN IF matching = {} THEN <<>>
     ELSE IF hasAnyCustomFields(cart) /\ matchingItem.customFields # <<>>
     THEN SelectSeq([f \in 1..Len(matchingItem.customFields) |->
                       <<multiKey(originalId, variationId, matchingItem.customFields[f].key),
                         FieldOf(account.fields, matchingItem.customFields[f].label)>>],
                    LAMBDA w : w[2] # "")
     ELSE IF FieldOf(account.fields, "IGN") # ""
     THEN <<(<<multiDefaultIgnKey(originalId, variationId), FieldOf(account.fields, "IGN")>>)>>
     ELSE <<>>

RECURSIVE accountsWrites(_, _)
accountsWrites(cart, accounts) ==
  IF accounts = <<>> THEN <<>>
  ELSE accountWrites(cart, Head(accounts)) \o accountsWrites(cart, Tail(accounts))

\* checkExistingOrder, one entry of a single-account customer_info: the
\* value goes to every field with that label, or to default_ign.
RECURSIVE labelWrites(_, _, _)
labelWrites(items, label, value) ==
  IF items = <<>> THEN <<>>
  ELSE LET item == Head(items)
           originalId == getOriginalMenuItemId(item.id)
       IN SelectSeq([f \in 1..Len(item.customFields) |->
                       IF item.customFields[f].label = label
                       THEN <<singleKey(originalId, item.customFields[f].key), value>>
                       ELSE <<>>],
                    LAMBDA w : w # <<>>)
          \o labelWrites(Tail(items), label, value)

RECURSIVE entriesWrites(_, _)
entriesWrites(cart, entries) ==
  IF entries = <<>> THEN <<>>
  ELSE LET key == Head(entries)[1]
           value == Head(entries)[2]
       IN (IF key = "Payment Method" THEN <<>>
           ELSE IF hasAnyCustomFields(cart)
           THEN labelWrites(itemsWithCustomFields(cart), key, value)
           ELSE IF key = "IGN" THEN <<(<<defaultIgnKey, value>>)>>
           ELSE <<>>)
          \o entriesWrites(cart, Tail(entries))

\* customer_info is absent, a map of labels to values (its entries, in
\* order) or holds a 'Multiple Accounts' list.
NoCustomerInfo == [kind |-> "none", entries |-> <<>>, accounts |-> <<>>]
SingleAccountInfo(entries) == [kind |-> "single", entries |-> entries, accounts |-> <<>>]
MultipleAccountsInfo(accounts) == [kind |-> "multiple", entries |-> <<>>, accounts |-> accounts]

\* (faulty variant: nothing is loaded)
loadedValuesNothing(cart, customer_info) == EmptyValues

\* checkExistingOrder: loadedValues for a rejected order
loadedValues(cart, customer_info) ==
  IF customer_info.kind = "multiple"
  THEN ApplyWrites(EmptyValues, accountsWrites(cart, customer_info.accounts))
  ELSE ApplyWrites(EmptyValues, entriesWrites(cart, customer_info.entries))

\* ------------------------------------------------------ the order message
\* generateOrderMessage, as the sections of its template that follow the
\* custom fields section: the ORDER DETAILS lines, the TOTAL line, the
\* Payment line and the Payment Receipt line.  The texts are the template's,
\* with '*' for the bullet, 'P' for the peso sign and no emoji.
\* (faulty variant: the line shows the per-unit price)
orderDetailsLineUnitPrice(item) ==
  "* " \o item.name
  \o (IF HasVariation(item.selectedVariation)
      THEN " (" \o item.selectedVariation.name \o ")" ELSE "")
  \o " x" \o ToString(item.quantity) \o " - P" \o ToString(item.totalPrice)

orderDetailsLine(item) ==
  "* " \o item.name
  \o (IF HasVariation(item.selectedVariation)
      THEN " (" \o item.selectedVariation.name \o ")" ELSE "")
  \o " x" \o ToString(item.quantity) \o " - P" \o ToString(item.totalPrice * item.quantity)

\* paymentMethods.find(method => method.id === paymentMethod)?.name || ''
paymentMethodName(methodId) ==
  IF methodId = "gcash" THEN "GCash" ELSE IF methodId = "maya" THEN "Maya" ELSE ""

generateOrderMessage(items, totalPrice, methodId, receiptUrl) ==
  [details |-> [i \in 1..Len(items) |-> orderDetailsLine(items[i])],
   total |-> "TOTAL: P" \o ToString(totalPrice),
   payment |-> "Payment: " \o paymentMethodName(methodId),
   receipt |-> "Payment Receipt: " \o receiptUrl]

\* No message generated yet.
NoMessage == [details |-> <<>>, total |-> "", payment |-> "", receipt |-> ""]

\* ----------------------------------------------------------- bulk entry
\* bulkInputFields: the positions that get a bulk input, 0 to the largest
\* number of fields of a selected game, less one.
bulkInputFields(cart, selected) ==
  LET selectedItems == SelectSeq(itemsWithCustomFields(cart),
                                 LAMBDA item : getOriginalMenuItemId(item.id) \in selected)
  IN UNION {0..(Len(selectedItems[n].customFields) - 1) : n \in 1..Len(selectedItems)}

\* The updates of the bulk sync effect: every bulk value, taken by ascending
\* position (the order of Object.entries on index keys), goes to the field at
\* that position of every selected game that has one, under that game's key.
bulkUpdates(cart, selected, bulkValues) ==
  LET selectedItems == SelectSeq(itemsWithCustomFields(cart),
                                 LAMBDA item : getOriginalMenuItemId(item.id) \in selected)
      keyAt(n, i) == singleKey(getOriginalMenuItemId(selectedItems[n].id),
                               selectedItems[n].customFields[i + 1].key)
      targets == {<<n, i>> \in (1..Len(selectedItems)) \X DOMAIN bulkValues :
                    i < Len(selectedItems[n].customFields)}
      lastPosition(k) ==
        CHOOSE i \in {t[2] : t \in {u \in targets : keyAt(u[1], u[2]) = k}} :
          \A t \in targets : keyAt(t[1], t[2]) = k => t[2] <= i
  IN [k \in {keyAt(t[1], t[2]) : t \in targets} |-> bulkValues[lastPosition(k)]]

\* The bulk sync effect, run after bulkInputValues or bulkSelectedGames
\* changed: customFieldValues after it.
bulkSync(cart, values, selected, bulkValues) ==
  IF selected = {} THEN values
  ELSE IF DOMAIN bulkUpdates(cart, selected, bulkValues) # {}
  THEN Spread(values, bulkUpdates(cart, selected, bulkValues))
  ELSE values

\* ---------------------------------------------------------- direct order
\* customerInfo[label] = value for a sequence of <<label, value>> writes: a
\* label written again keeps its place and takes the new value.
RECURSIVE PutEntries(_, _)
PutEntries(entries, writes) ==
  IF writes = <<>> THEN entries
  ELSE LET write == Head(writes)
           at == {i \in 1..Len(entries) : entries[i][1] = write[1]}
       IN PutEntries(IF at = {} THEN Append(entries, write)
                     ELSE [i \in 1..Len(entries) |-> IF i \in at THEN write ELSE entries[i]],
                     Tail(writes))

\* if (value): the key holds a non-empty text
hasValue(values, valueKey) == valueKey \in DOMAIN values /\ values[valueKey] # ""

\* handlePlaceOrderDirect, single-account mode: the label and value of every
\* field of every game that holds a value, in order.
RECURSIVE singleAccountWrites(_, _)
singleAccountWrites(items, values) ==
  IF items = <<>> THEN <<>>
  ELSE LET item == Head(items)
           valueKey(f) == singleKey(getOriginalMenuItemId(item.id), item.customFields[f].key)
       IN SelectSeq([f \in 1..Len(item.customFields) |->
                       IF hasValue(values, valueKey(f))
                       THEN <<item.customFields[f].label, values[valueKey(f)]>>
                       ELSE <<>>],
                    LAMBDA w : w # <<>>)
          \o singleAccountWrites(Tail(items), values)

\* The first lines of the (game, variation) groups of the cart, in the order
\* of the two maps of itemsByGameAndVariation: games by first line, the
\* variations of a game by first line.
groupsInOrder(cart) ==
  LET sameGame(i, j) ==
        getOriginalMenuItemId(cart[i].id) = getOriginalMenuItemId(cart[j].id)
      sameGroup(i, j) ==
        sameGame(i, j) /\ variationIdOrDefault(cart[i]) = variationIdOrDefault(cart[j])
      firsts == {i \in 1..Len(cart) : \A j \in 1..(i - 1) : ~sameGroup(i, j)}
      gameFirst(i) == CHOOSE j \in 1..i : sameGame(i, j) /\ \A k \in 1..(j - 1) : ~sameGame(i, k)
      before(i, j) == gameFirst(i) < gameFirst(j) \/ (gameFirst(i) = gameFirst(j) /\ i < j)
      rank(i) == Cardinality({j \in firsts : before(j, i)}) + 1
  IN [n \in 1..Cardinality(firsts) |-> CHOOSE i \in firsts : rank(i) = n]

\* handlePlaceOrderDirect, multiple-accounts mode: accountsByPackage, one
\* account for every group that holds a value.
accountsByPackage(cart, values) ==
  LET account(i) ==
        LET gameId == getOriginalMenuItemId(cart[i].id)
            variationId == variationIdOrDefault(cart[i])
            first == firstItem(cart, gameId)
            labels ==
              IF hasAnyCustomFields(cart) /\ first.customFields # <<>>
              THEN {first.customFields[f].label : f \in
                      {g \in 1..Len(first.customFields) :
                         hasValue(values, multiKey(gameId, variationId,
                                                   first.customFields[g].key))}}
              ELSE IF hasValue(values, multiDefaultIgnKey(gameId, variationId))
              THEN {"IGN"}
              ELSE {}
            valueOf(label) ==
              IF hasAnyCustomFields(cart) /\ first.customFields # <<>>
              THEN LET at == {g \in 1..Len(first.customFields) :
                                /\ first.customFields[g].label = label
                                /\ hasValue(values, multiKey(gameId, variationId,
                                                             first.customFields[g].key))}
                       last == CHOOSE g \in at : \A h \in at : h <= g
                   IN values[multiKey(gameId, variationId, first.customFields[last].key)]
              ELSE values[multiDefaultIgnKey(gameId, variationId)]
        IN [game |-> first.name,
            package |-> IF HasVariation(cart[i].selectedVariation)
                        THEN cart[i].selectedVariation.name ELSE "Default",
            fields |-> [label \in labels |-> valueOf(label)]]
      groups == groupsInOrder(cart)
  IN SelectSeq([n \in 1..Len(groups) |-> account(groups[n])],
               LAMBDA a : DOMAIN a.fields # {})

\* handlePlaceOrderDirect: the customer_info it hands to createOrder.
customerInfoOf(cart, values, useMultiple, methodId) ==
  LET method == <<(<<"Payment Method", paymentMethodName(methodId)>>)>>
  IN IF useMultiple
     THEN IF accountsByPackage(cart, values) # <<>>
          THEN [kind |-> "multiple", entries |-> method,
                accounts |-> accountsByPackage(cart, values)]
          ELSE SingleAccountInfo(method)
     ELSE IF hasAnyCustomFields(cart)
     THEN SingleAccountInfo(
            PutEntries(method, singleAccountWrites(itemsWithCustomFields(cart), values)))
     ELSE IF hasValue(values, defaultIgnKey)
     THEN SingleAccountInfo(PutEntries(method, <<(<<"IGN", values[defaultIgnKey]>>)>>))
     ELSE SingleAccountInfo(method)
\* ---------------------------------------------------------------- bounds
\* Cart lines created in one run (each takes a fresh id suffix).
MaxNew == 2
\* Largest quantity a cart line is taken to.
MaxQty == 2
\* checkAuth lookups awaiting their answer at one time.
MaxChecks == 2
\* Members registered in one run.
MaxRegistered == 2

\* ---------------------------------------------------------------- state
VARIABLES
  normIn,        \* the add-on list handed to normalizeAddOns
  normOut,       \* what normalizeAddOns returned for it
  normDone,      \* normalizeAddOns has been applied
  cartItems,     \* useCart: the cart lines, first line first
  nextSuffix,    \* the id suffix the next new cart line gets
  currentMember, \* the member useCart / MenuItemCard were rendered for
  lastOp,        \* the cart operation that ran last
  addLog,        \* the addToCart calls made on the cart of SpecTwoAdds
  storedCart,    \* localStorage amber_cartItems
  cartLoad,      \* what the useState initializer of cartItems returned
  cardItem,         \* MenuItemCard: the item prop
  cardVariations,   \* MenuItemCard: item.variations
  backendDiscounts, \* the reseller's negotiated selling prices, by variation id
  memberDiscounts,  \* MenuItemCard: the cached negotiated prices
  fetching,         \* MenuItemCard: the fetchDiscounts effect is still to finish
  members,        \* the backend's members table
  storedMemberId, \* localStorage member_id
  loading,        \* MemberAuthProvider: loading
  mounted,        \* MemberAuthProvider: the mount effect has run
  loginCall,      \* the login call in progress, or the last one
  regCall,        \* the register call in progress, or the last one
  checks,         \* the checkAuth lookups awaiting their answer
  nextMemberId,   \* the id the backend gives the next inserted member
  authEvent,      \* the step just taken dispatched memberAuthUpdate
  loggedOut,      \* logout returned last of logout, successful login and registration
  step,                    \* Checkout: 'details' | 'payment' | 'summary'
  paymentMethod,           \* Checkout: the selected payment method id
  customFieldValues,       \* Checkout: the entered values, by value key
  useMultipleAccounts,     \* Checkout: multiple-accounts mode
  receiptFile,             \* Checkout: the chosen receipt file
  receiptImageUrl,         \* Checkout: the uploaded receipt's URL
  receiptPreview,          \* Checkout: the receipt's data URL
  receiptError,            \* Checkout: the inline error text
  uploadingReceipt,        \* useImageUpload: an upload is running
  previewPending,          \* the FileReader of handleReceiptUpload is still reading
  copied,                  \* Checkout: the two-second 'copied' mark
  copyPending,             \* handleCopyMessage awaits the clipboard
  hasCopiedMessage,        \* Checkout: the order message has been copied
  orderMessage,            \* the message generateOrderMessage returned last
  orderOption,             \* siteSettings.order_option
  orders,                  \* the backend's orders table
  storedOrderId,           \* localStorage current_order_id
  orderCheck,              \* checkExistingOrder: 'fetching' | 'done'
  existingOrderStatus,     \* Checkout: existingOrderStatus
  existingOrderId,         \* Checkout: existingOrderId
  orderId,                 \* Checkout: orderId
  isCheckingExistingOrder, \* Checkout: isCheckingExistingOrder
  messengerOpened,         \* the step just taken opened the m.me link
  bulkInputValues,         \* Checkout: the bulk values, by field position
  bulkSelectedGames,       \* Checkout: the games selected for bulk entry
  isOrderModalOpen,        \* Checkout: isOrderModalOpen
  isPlacingOrder,          \* Checkout: isPlacingOrder
  createCalls,             \* the createOrder requests awaiting their answer
  refetches                \* the fetchOrderById requests of the modal's onClose

normVars == <<normIn, normOut, normDone>>
storeVars == <<storedCart, cartLoad>>
cartVars == <<cartItems, nextSuffix, currentMember, lastOp, addLog, storedCart, cartLoad>>
cardVars == <<cardItem, cardVariations, backendDiscounts, memberDiscounts, fetching>>
vars ==
  <<normIn, normOut, normDone, cartItems, nextSuffix, currentMember, lastOp, addLog,
    storedCart, cartLoad,
    cardItem, cardVariations, backendDiscounts, memberDiscounts, fetching,
    members, storedMemberId, loading, mounted, loginCall, regCall, checks, nextMemberId,
    authEvent, loggedOut,
    step, paymentMethod, customFieldValues, useMultipleAccounts, receiptFile,
    receiptImageUrl, receiptPreview, receiptError, uploadingReceipt, previewPending, copied,
    copyPending, hasCopiedMessage, orderMessage, orderOption, orders, storedOrderId, orderCheck,
    existingOrderStatus, existingOrderId, orderId, isCheckingExistingOrder, messengerOpened,
    bulkInputValues, bulkSelectedGames, isOrderModalOpen, isPlacingOrder, createCalls,
    refetches>>
authVars ==
  <<members, storedMemberId, loading, mounted, loginCall, regCall, checks, nextMemberId,
    authEvent, loggedOut>>

detailsVars == <<customFieldValues, useMultipleAccounts>>
receiptVars ==
  <<receiptFile, receiptImageUrl, receiptPreview, receiptError, uploadingReceipt,
    previewPending>>
copyVars == <<copied, copyPending, hasCopiedMessage, orderMessage>>
orderVars ==
  <<orderOption, orders, storedOrderId, orderCheck, existingOrderStatus, existingOrderId,
    orderId, isCheckingExistingOrder>>
bulkVars == <<bulkInputValues, bulkSelectedGames>>
placeVars == <<isOrderModalOpen, isPlacingOrder, createCalls, refetches>>
checkoutVars ==
  <<step, paymentMethod, detailsVars, receiptVars, copyVars, orderVars, messengerOpened,
    bulkVars, placeVars>>

NormIdle == normIn = <<>> /\ normOut = <<>> /\ normDone = FALSE
AuthIdle ==
  /\ members = {}
  /\ storedMemberId = 0
  /\ loading = FALSE
  /\ mounted = TRUE
  /\ loginCall = IdleCall
  /\ regCall = IdleCall
  /\ checks = <<>>
  /\ nextMemberId = 0
  /\ authEvent = FALSE
  /\ loggedOut = FALSE
\* Checkout as useState leaves it, with no stored order; null is the empty
\* text (every test of these values is a truthiness test).
CheckoutIdle ==
  /\ step = "details"
  /\ paymentMethod = ""
  /\ customFieldValues = EmptyValues
  /\ useMultipleAccounts = FALSE
  /\ receiptFile = ""
  /\ receiptImageUrl = ""
  /\ receiptPreview = ""
  /\ receiptError = ""
  /\ uploadingReceipt = FALSE
  /\ previewPending = FALSE
  /\ copied = FALSE
  /\ copyPending = FALSE
  /\ hasCopiedMessage = FALSE
  /\ orderMessage = NoMessage
  /\ orderOption = "order_via_messenger"
  /\ orders = {}
  /\ storedOrderId = ""
  /\ orderCheck = "done"
  /\ existingOrderStatus = ""
  /\ existingOrderId = ""
  /\ orderId = ""
  /\ isCheckingExistingOrder = FALSE
  /\ messengerOpened = FALSE
  /\ bulkInputValues = EmptyValues
  /\ bulkSelectedGames = {}
  /\ isOrderModalOpen = FALSE
  /\ isPlacingOrder = FALSE
  /\ createCalls = <<>>
  /\ refetches = <<>>
CardIdle ==
  /\ cardItem = G1
  /\ cardVariations = {}
  /\ backendDiscounts = <<>>
  /\ memberDiscounts = <<>>
  /\ fetching = FALSE
CartIdle ==
  /\ cartItems = <<>>
  /\ nextSuffix = 1
  /\ currentMember = NoMember
  /\ lastOp = "none"
  /\ addLog = <<>>
  /\ storedCart = stringify(<<>>)
  /\ cartLoad = JsonArray(<<>>)

\* ------------------------------------------- normalizeAddOns on its own
AddOnLists == SeqsUpTo(AddOnEntries, MaxAddOnLen)

InitNorm ==
  /\ normIn \in AddOnLists
  /\ normOut = <<>>
  /\ normDone = FALSE
  /\ CartIdle
  /\ CardIdle
  /\ AuthIdle
  /\ CheckoutIdle

Normalize ==
  /\ ~normDone
  /\ normOut' = normalizeAddOns(normIn)
  /\ normDone' = TRUE
  /\ UNCHANGED normIn
  /\ UNCHANGED <<checkoutVars, cartVars, cardVars, authVars>>

NextNorm == Normalize

SpecNorm == InitNorm /\ [][NextNorm]_vars

\* ------------------------------------------------------------ the cart
\* The members the cart is rendered for: a guest, an end user, a reseller.
EndUser ==
  [id |-> 1, username |-> "u1", email |-> "e1", password_hash |-> "h1",
   status |-> "active", user_type |-> "end_user"]
Reseller ==
  [id |-> 2, username |-> "u2", email |-> "e2", password_hash |-> "h2",
   status |-> "active", user_type |-> "reseller"]
CartMembers == {NoMember, EndUser, Reseller}

\* What callers hand to addToCart.
AddQtys == {1, 2}
A(q) == [id |-> "a", price |-> AddOnPrice["a"], quantity |-> q]
B(q) == [id |-> "b", price |-> AddOnPrice["b"], quantity |-> q]
CartAddOnLists == {<<>>, <<A(Undef), A(Undef)>>, <<A(2)>>, <<A(2), A(Undef)>>}
TwoAddsAddOnLists ==
  {<<>>, <<A(Undef), A(Undef)>>, <<A(2)>>, <<A(2), A(Undef)>>, <<A(Undef), A(2)>>,
   <<A(Undef), B(Undef)>>, <<B(Undef), A(Undef)>>, <<B(2), A(Undef)>>}
\* (item, variation, add-ons) configurations priced in SpecTotal.
TotalConfigs ==
  {<<G1, V1, <<A(2)>> >>, <<G1, V2, <<>> >>, <<G2, NoVariation, <<B(Undef), A(Undef)>> >>}
OverridePrices == {Undef, 55}

\* The line ids a caller may pass: those of the cart's lines and one that no
\* line has.
UnknownLineId == uniqueId("g1", MaxNew + 1)
LineIds == {cartItems[i].id : i \in 1..Len(cartItems)} \cup {UnknownLineId}

InitCart == NormIdle /\ CartIdle /\ CardIdle /\ AuthIdle /\ CheckoutIdle

\* The quantity cap of the model: no line is taken above MaxQty.
WithinQty(items) == \A i \in 1..Len(items) : items[i].quantity <= MaxQty

AddToCart(item, quantity, variation, addOns, effectiveUnitPrice) ==
  LET next == addToCart(cartItems, item, quantity, variation, addOns, effectiveUnitPrice,
                        currentMember, nextSuffix)
      isNew == Len(next) > Len(cartItems)
  IN /\ isNew => nextSuffix <= MaxNew
     /\ WithinQty(next)
     /\ cartItems' = next
     /\ nextSuffix' = IF isNew THEN nextSuffix + 1 ELSE nextSuffix
     /\ storedCart' = stringify(next)
     /\ lastOp' = "addToCart"
     /\ UNCHANGED <<currentMember, addLog, cartLoad>>
     /\ UNCHANGED <<checkoutVars, normVars, cardVars, authVars>>

UpdateQuantity(id, quantity) ==
  /\ cartItems' = updateQuantity(cartItems, id, quantity)
  /\ storedCart' = stringify(cartItems')
  /\ lastOp' = "updateQuantity"
  /\ UNCHANGED <<nextSuffix, currentMember, addLog, cartLoad>>
  /\ UNCHANGED <<checkoutVars, normVars, cardVars, authVars>>

RemoveFromCart(id) ==
  /\ cartItems' = removeFromCart(cartItems, id)
  /\ storedCart' = stringify(cartItems')
  /\ lastOp' = "removeFromCart"
  /\ UNCHANGED <<nextSuffix, currentMember, addLog, cartLoad>>
  /\ UNCHANGED <<checkoutVars, normVars, cardVars, authVars>>

ClearCart ==
  /\ cartItems' = <<>>
  /\ storedCart' = stringify(cartItems')
  /\ lastOp' = "clearCart"
  /\ UNCHANGED <<nextSuffix, currentMember, addLog, cartLoad>>
  /\ UNCHANGED <<checkoutVars, normVars, cardVars, authVars>>

\* The app re-renders useCart with another member (login, logout).
MemberChanges(member) ==
  /\ member # currentMember
  /\ currentMember' = member
  /\ lastOp' = "memberChanges"
  /\ UNCHANGED <<cartItems, nextSuffix, addLog, storeVars>>
  /\ UNCHANGED <<checkoutVars, normVars, cardVars, authVars>>

\* Cart handling as such: add-on lists in both shapes, for a guest and
\* without an override price.
NextCart ==
  \/ \E item \in MenuItems, quantity \in AddQtys, addOns \in CartAddOnLists :
       \E variation \in {NoVariation} \cup (VariationsOf(item.id) \cap {V1}) :
         AddToCart(item, quantity, variation, addOns, Undef)
  \/ \E id \in LineIds, quantity \in (0 - 1)..MaxQty : UpdateQuantity(id, quantity)
  \/ \E id \in LineIds : RemoveFromCart(id)
  \/ ClearCart

SpecCart == InitCart /\ [][NextCart]_vars

\* Cart totals: tiered variations, add-ons and override prices, while the
\* member the cart is rendered for changes.
NextTotal ==
  \/ \E config \in TotalConfigs, quantity \in AddQtys, effectiveUnitPrice \in OverridePrices :
       AddToCart(config[1], quantity, config[2], config[3], effectiveUnitPrice)
  \/ \E id \in LineIds, quantity \in (0 - 1)..MaxQty : UpdateQuantity(id, quantity)
  \/ \E id \in LineIds : RemoveFromCart(id)
  \/ ClearCart
  \/ \E member \in CartMembers : MemberChanges(member)

SpecTotal == InitCart /\ [][NextTotal]_vars

\* Two addToCart calls on an empty cart, each call logged with its arguments.
AddToCartLogged(item, quantity, variation, addOns) ==
  LET next == addToCart(cartItems, item, quantity, variation, addOns, Undef,
                        currentMember, nextSuffix)
  IN /\ Len(addLog) < 2
     /\ cartItems' = next
     /\ nextSuffix' = IF Len(next) > Len(cartItems) THEN nextSuffix + 1 ELSE nextSuffix
     /\ lastOp' = "addToCart"
     /\ addLog' = Append(addLog, [item |-> item, quantity |-> quantity,
                                  variation |-> variation, addOns |-> addOns])
     /\ storedCart' = stringify(next)
     /\ UNCHANGED <<currentMember, cartLoad>>
     /\ UNCHANGED <<checkoutVars, normVars, cardVars, authVars>>

NextTwoAdds ==
  \E item \in MenuItems, quantity \in AddQtys, addOns \in TwoAddsAddOnLists :
    \E variation \in {NoVariation} \cup VariationsOf(item.id) :
      AddToCartLogged(item, quantity, variation, addOns)

SpecTwoAdds == InitCart /\ [][NextTwoAdds]_vars


\* ------------------------------------------------- the cart across reloads
\* What a browser may hold under amber_cartItems before the first load:
\* nothing, an empty or unparseable text, or JSON that is no array.  (The
\* carts the app itself saved are reached by the actions.)
ForeignEntries == {NoEntry, EmptyText, UnparseableText, JsonText(JsonNull), JsonText(JsonObject)}

InitPersist ==
  /\ NormIdle
  /\ CardIdle
  /\ AuthIdle
  /\ CheckoutIdle
  /\ cartItems = <<>>
  /\ nextSuffix = 1
  /\ currentMember = NoMember
  /\ lastOp = "none"
  /\ addLog = <<>>
  /\ storedCart \in ForeignEntries
  /\ cartLoad = Unmounted

\* useCart mounts (first visit or page reload): the useState initializer
\* reads the entry, then the save effect writes the state back.  A value
\* that is no array is written back as the text it came from.
LoadCart ==
  LET loaded == loadCartItems(storedCart) IN
  /\ cartLoad' = loaded
  /\ cartItems' = loaded.items
  /\ storedCart' = IF loaded.type = "array" THEN stringify(loaded.items) ELSE storedCart
  /\ lastOp' = "load"
  /\ UNCHANGED <<nextSuffix, currentMember, addLog>>
  /\ UNCHANGED <<checkoutVars, normVars, cardVars, authVars>>

\* The cart operations need an array (prev.find, prev.map and prev.filter
\* throw on anything else).
cartIsArray == cartLoad.type = "array"

NextPersist ==
  \/ LoadCart
  \/ /\ cartIsArray
     /\ \E config \in TotalConfigs, quantity \in AddQtys, effectiveUnitPrice \in OverridePrices :
          AddToCart(config[1], quantity, config[2], config[3], effectiveUnitPrice)
  \/ /\ cartIsArray
     /\ \E id \in LineIds, quantity \in 0..MaxQty : UpdateQuantity(id, quantity)
  \/ /\ cartIsArray
     /\ \E id \in LineIds : RemoveFromCart(id)
  \/ /\ cartIsArray
     /\ ClearCart

SpecPersist == InitPersist /\ [][NextPersist]_vars
\* ------------------------------------------------- a catalog card
\* What a tier price of a variation may hold: nothing, null, or a price.
TierPrices(price) == {Undef, Null, price}
VariationIds == {"v1", "v2"}
NoDiscounts == [v \in VariationIds |-> Undef]

\* The item a card shows: on discount or not, with or without a percentage.
CardItems ==
  {[id |-> "g1", basePrice |-> 10, isOnDiscount |-> d[1], discountPercentage |-> d[2]] :
     d \in {<<FALSE, Undef>>, <<TRUE, Undef>>, <<TRUE, 25>>}}

\* Its packages: v1 with any tier prices, v2 with both tier prices.
CardVariationSets ==
  {{[id |-> "v1", price |-> 100, member_price |-> m, reseller_price |-> r],
    [id |-> "v2", price |-> 200, member_price |-> 180, reseller_price |-> 160]} :
     m \in TierPrices(90), r \in TierPrices(80)}

\* The negotiated selling prices the backend holds for the reseller.
BackendDiscounts == {NoDiscounts, [NoDiscounts EXCEPT !["v1"] = 70],
                     [v \in VariationIds |-> 70]}

InitPrice ==
  /\ NormIdle
  /\ CartIdle
  /\ AuthIdle
  /\ CheckoutIdle
  /\ cardItem \in CardItems
  /\ cardVariations \in CardVariationSets
  /\ backendDiscounts \in BackendDiscounts
  /\ memberDiscounts = NoDiscounts
  /\ fetching = TRUE

\* Menu keys each card by the member, so a login or logout mounts a new
\* card: memberDiscounts starts empty and the fetch effect runs again.
CardMemberChanges(member) ==
  /\ member # currentMember
  /\ currentMember' = member
  /\ memberDiscounts' = NoDiscounts
  /\ fetching' = TRUE
  /\ lastOp' = "memberChanges"
  /\ UNCHANGED <<cartItems, nextSuffix, addLog, storeVars, cardItem, cardVariations, backendDiscounts>>
  /\ UNCHANGED <<checkoutVars, normVars, authVars>>

\* fetchDiscounts: a reseller's card caches the backend's selling prices of
\* the item's variations, any other card the empty map.
FetchDiscounts ==
  /\ fetching
  /\ fetching' = FALSE
  /\ memberDiscounts' = IF isReseller(currentMember) THEN backendDiscounts ELSE NoDiscounts
  /\ lastOp' = "fetchDiscounts"
  /\ UNCHANGED <<cartItems, nextSuffix, currentMember, addLog, storeVars, cardItem, cardVariations,
                 backendDiscounts>>
  /\ UNCHANGED <<checkoutVars, normVars, authVars>>

\* handleItemSelect(variation): the catalog price of the package plus the
\* item's base price goes to addToCart as the override price.
HandleItemSelect(v) ==
  LET effectiveVariationPrice ==
        getDiscountedPriceSync(cardItem, cardVariations, memberDiscounts, currentMember,
                               v.price, v.id)
      effectiveUnitPrice == cardItem.basePrice + ToNumber(effectiveVariationPrice)
      next == addToCart(cartItems, cardItem, 1, v, <<>>, effectiveUnitPrice,
                        currentMember, nextSuffix)
      isNew == Len(next) > Len(cartItems)
  IN /\ WithinQty(next)
     /\ cartItems' = next
     /\ nextSuffix' = IF isNew THEN nextSuffix + 1 ELSE nextSuffix
     /\ storedCart' = stringify(next)
     /\ lastOp' = "handleItemSelect"
     /\ UNCHANGED <<currentMember, addLog, cartLoad, cardItem, cardVariations, backendDiscounts,
                    memberDiscounts, fetching>>
     /\ UNCHANGED <<checkoutVars, normVars, authVars>>

NextPrice ==
  \/ \E member \in CartMembers : CardMemberChanges(member)
  \/ FetchDiscounts
  \/ \E v \in cardVariations : HandleItemSelect(v)

SpecPrice == InitPrice /\ [][NextPrice]_vars

\* ------------------------------------------------- MemberAuthProvider
\* The rows of the backend's members table besides the two of the cart.
Inactive ==
  [id |-> 3, username |-> "u3", email |-> "e3", password_hash |-> "h1",
   status |-> "inactive", user_type |-> "end_user"]
MemberTables == {{}, {EndUser, Inactive}, {EndUser, Reseller, Inactive}}

\* What the forms send.
Emails == {"e1", "e3", "e4"}
Usernames == {"u1", "u4"}
Passwords == {"p1", "p2"}

InitAuth ==
  /\ NormIdle
  /\ CartIdle
  /\ CardIdle
  /\ CheckoutIdle
  /\ members \in MemberTables
  /\ storedMemberId \in {NoId} \cup {m.id : m \in members} \cup {9}
  /\ loading = TRUE
  /\ mounted = FALSE
  /\ loginCall = IdleCall
  /\ regCall = IdleCall
  /\ checks = <<>>
  /\ nextMemberId = 11
  /\ authEvent = FALSE
  /\ loggedOut = FALSE

\* checkAuth up to its await: without a stored member_id it finishes at once,
\* with one it sends the lookup of that id. by names what ran it: the mount
\* effect, the memberAuthUpdate listener or the storage listener.
StartCheckAuth(stored, member, pending, by) ==
  IF stored # NoId
  THEN /\ checks' = Append(pending, [id |-> stored, by |-> by])
       /\ currentMember' = member
       /\ UNCHANGED loading
  ELSE /\ checks' = pending
       /\ currentMember' = NoMember
       /\ loading' = FALSE

\* The mount effect: checkAuth() and the two listeners.
Mount ==
  /\ ~mounted
  /\ mounted' = TRUE
  /\ StartCheckAuth(storedMemberId, currentMember, checks, "mount")
  /\ authEvent' = FALSE
  /\ UNCHANGED loggedOut
  /\ UNCHANGED <<members, storedMemberId, loginCall, regCall, nextMemberId>>
  /\ UNCHANGED <<checkoutVars, normVars, cardVars, cartItems, nextSuffix, lastOp, addLog,
                 storeVars>>

\* checkAuth after its await: the answer to the i-th pending lookup arrives,
\* or the lookup fails (an error in the answer, or a thrown one).
CheckAuthReturns(i, failed) ==
  LET data == IF failed THEN NoMember
              ELSE single(activeMembersById(members, checks[i].id)) IN
  /\ i \in 1..Len(checks)
  /\ checks' = [j \in 1..(Len(checks) - 1) |-> IF j < i THEN checks[j] ELSE checks[j + 1]]
  /\ IF data # NoMember
     THEN currentMember' = data /\ UNCHANGED storedMemberId
     ELSE currentMember' = NoMember /\ storedMemberId' = NoId
  /\ loading' = FALSE
  /\ authEvent' = FALSE
  /\ UNCHANGED loggedOut
  /\ UNCHANGED <<members, mounted, loginCall, regCall, nextMemberId>>
  /\ UNCHANGED <<checkoutVars, normVars, cardVars, cartItems, nextSuffix, lastOp, addLog,
                 storeVars>>

\* login(data): the call, up to the lookup by email.
LoginCalled(email, password) ==
  /\ mounted
  /\ loginCall.pc \in {"idle", "done"}
  /\ loginCall' = [IdleCall EXCEPT !.pc = "lookup", !.email = email, !.password = password]
  /\ authEvent' = FALSE
  /\ UNCHANGED loggedOut
  /\ UNCHANGED <<members, storedMemberId, loading, mounted, regCall, checks, nextMemberId,
                 currentMember>>
  /\ UNCHANGED <<checkoutVars, normVars, cardVars, cartItems, nextSuffix, lastOp, addLog,
                 storeVars>>

\* The lookup answers: no single row or an inactive member ends the call.
LoginLookedUp ==
  LET member == single(membersByEmail(members, loginCall.email)) IN
  /\ loginCall.pc = "lookup"
  /\ loginCall' =
       IF member = NoMember
       THEN Done("Invalid email or password")
       ELSE IF member.status # "active"
       THEN Done("Account is inactive")
       ELSE [loginCall EXCEPT !.pc = "verify", !.member = member]
  /\ authEvent' = FALSE
  /\ UNCHANGED loggedOut
  /\ UNCHANGED <<members, storedMemberId, loading, mounted, regCall, checks, nextMemberId,
                 currentMember>>
  /\ UNCHANGED <<checkoutVars, normVars, cardVars, cartItems, nextSuffix, lastOp, addLog,
                 storeVars>>

\* verifyPassword answers: a wrong password ends the call, a right one stores
\* member_id, sets currentMember and dispatches memberAuthUpdate, whose
\* listener starts checkAuth.
LoginVerified ==
  /\ loginCall.pc = "verify"
  /\ Len(checks) < MaxChecks
  /\ IF verifyPassword(loginCall.password, loginCall.member.password_hash)
     THEN /\ loginCall' = Done("success")
          /\ storedMemberId' = loginCall.member.id
          /\ authEvent' = TRUE
          /\ loggedOut' = FALSE
          /\ StartCheckAuth(loginCall.member.id, loginCall.member, checks, "memberAuthUpdate")
     ELSE /\ loginCall' = Done("Invalid email or password")
          /\ authEvent' = FALSE
          /\ UNCHANGED loggedOut
          /\ UNCHANGED <<storedMemberId, currentMember, checks, loading>>
  /\ UNCHANGED <<members, mounted, regCall, nextMemberId>>
  /\ UNCHANGED <<checkoutVars, normVars, cardVars, cartItems, nextSuffix, lastOp, addLog,
                 storeVars>>

\* register(data): the call, up to the lookup by email.
RegisterCalled(username, email, password) ==
  /\ mounted
  /\ regCall.pc \in {"idle", "done"}
  /\ nextMemberId < 11 + MaxRegistered
  /\ regCall' = [IdleCall EXCEPT !.pc = "email", !.username = username, !.email = email,
                                 !.password = password]
  /\ authEvent' = FALSE
  /\ UNCHANGED loggedOut
  /\ UNCHANGED <<members, storedMemberId, loading, mounted, loginCall, checks, nextMemberId,
                 currentMember>>
  /\ UNCHANGED <<checkoutVars, normVars, cardVars, cartItems, nextSuffix, lastOp, addLog,
                 storeVars>>

\* The lookup by email answers.
RegisterEmailLookedUp ==
  /\ regCall.pc = "email"
  /\ regCall' =
       IF single(membersByEmail(members, regCall.email)) # NoMember
       THEN Done("Email already registered")
       ELSE [regCall EXCEPT !.pc = "username"]
  /\ authEvent' = FALSE
  /\ UNCHANGED loggedOut
  /\ UNCHANGED <<members, storedMemberId, loading, mounted, loginCall, checks, nextMemberId,
                 currentMember>>
  /\ UNCHANGED <<checkoutVars, normVars, cardVars, cartItems, nextSuffix, lastOp, addLog,
                 storeVars>>

\* The lookup by username answers; hashPassword follows and the insert is sent.
RegisterUsernameLookedUp ==
  /\ regCall.pc = "username"
  /\ regCall' =
       IF single(membersByUsername(members, regCall.username)) # NoMember
       THEN Done("Username already taken")
       ELSE [regCall EXCEPT !.pc = "insert"]
  /\ authEvent' = FALSE
  /\ UNCHANGED loggedOut
  /\ UNCHANGED <<members, storedMemberId, loading, mounted, loginCall, checks, nextMemberId,
                 currentMember>>
  /\ UNCHANGED <<checkoutVars, normVars, cardVars, cartItems, nextSuffix, lastOp, addLog,
                 storeVars>>

\* The backend inserts the row, giving it an id of its own.
RegisterInserted ==
  LET newMember == newMemberRow(nextMemberId, regCall.username, regCall.email,
                                regCall.password) IN
  /\ regCall.pc = "insert"
  /\ members' = members \cup {newMember}
  /\ nextMemberId' = nextMemberId + 1
  /\ regCall' = [regCall EXCEPT !.pc = "inserted", !.member = newMember]
  /\ authEvent' = FALSE
  /\ UNCHANGED loggedOut
  /\ UNCHANGED <<storedMemberId, loading, mounted, loginCall, checks, currentMember>>
  /\ UNCHANGED <<checkoutVars, normVars, cardVars, cartItems, nextSuffix, lastOp, addLog,
                 storeVars>>

\* The insert answers with the new row: member_id is stored, currentMember
\* set and memberAuthUpdate dispatched, whose listener starts checkAuth.
RegisterReturned ==
  /\ regCall.pc = "inserted"
  /\ Len(checks) < MaxChecks
  /\ regCall' = Done("success")
  /\ storedMemberId' = regCall.member.id
  /\ StartCheckAuth(regCall.member.id, regCall.member, checks, "memberAuthUpdate")
  /\ authEvent' = TRUE
  /\ loggedOut' = FALSE
  /\ UNCHANGED <<members, mounted, loginCall, nextMemberId>>
  /\ UNCHANGED <<checkoutVars, normVars, cardVars, cartItems, nextSuffix, lastOp, addLog,
                 storeVars>>

\* logout. loggedOut records a logout made once the mount's checkAuth is
\* complete.
Logout ==
  /\ mounted
  /\ storedMemberId' = NoId
  /\ currentMember' = NoMember
  /\ authEvent' = FALSE
  /\ loggedOut' = (\A i \in 1..Len(checks) : checks[i].by # "mount")
  /\ UNCHANGED <<members, loading, mounted, loginCall, regCall, checks, nextMemberId>>
  /\ UNCHANGED <<checkoutVars, normVars, cardVars, cartItems, nextSuffix, lastOp, addLog,
                 storeVars>>

NextAuth ==
  \/ Mount
  \/ \E i \in 1..Len(checks), failed \in BOOLEAN : CheckAuthReturns(i, failed)
  \/ \E email \in Emails, password \in Passwords : LoginCalled(email, password)
  \/ LoginLookedUp
  \/ LoginVerified
  \/ \E username \in Usernames, email \in Emails, password \in Passwords :
       RegisterCalled(username, email, password)
  \/ RegisterEmailLookedUp
  \/ RegisterUsernameLookedUp
  \/ RegisterInserted
  \/ RegisterReturned
  \/ Logout

SpecAuth == InitAuth /\ [][NextAuth]_vars


\* The storage listener: another tab has written or removed member_id, and
\* checkAuth runs on the new value.
StorageChanged(newId) ==
  /\ mounted
  /\ newId # storedMemberId
  /\ Len(checks) < MaxChecks
  /\ storedMemberId' = newId
  /\ StartCheckAuth(newId, currentMember, checks, "storage")
  /\ authEvent' = FALSE
  /\ loggedOut' = (loggedOut /\ newId = NoId)
  /\ UNCHANGED <<members, mounted, loginCall, regCall, nextMemberId>>
  /\ UNCHANGED <<checkoutVars, normVars, cardVars, cartItems, nextSuffix, lastOp, addLog,
                 storeVars>>

\* The provider from its mount on, with the storage events of other tabs and
\* logout. The mount effect runs, and every lookup sent is answered or fails.
NextStartup ==
  \/ Mount
  \/ \E i \in 1..Len(checks), failed \in BOOLEAN : CheckAuthReturns(i, failed)
  \/ \E newId \in {NoId, 9} \cup {m.id : m \in members} : StorageChanged(newId)
  \/ Logout

SpecStartup ==
  /\ InitAuth
  /\ [][NextStartup]_vars
  /\ WF_vars(Mount)
  /\ WF_vars(\E i \in 1..Len(checks), failed \in BOOLEAN : CheckAuthReturns(i, failed))
\* ------------------------------------------------------------- Checkout
\* The games and packages of the carts brought to checkout: Game A asks for
\* a required UID, Game B for a required UID and an optional server, Game C
\* for nothing.
FieldUid == [key |-> "uid", label |-> "UID", required |-> TRUE]
FieldServer == [key |-> "server", label |-> "Server", required |-> FALSE]
GameA == [id |-> "ga", name |-> "Game A", customFields |-> <<FieldUid>>]
GameB ==
  [id |-> "gb", name |-> "Game B", customFields |-> <<FieldUid, FieldServer>>]
GameC == [id |-> "gc", name |-> "Game C", customFields |-> <<>>]
Pkg1 ==
  [id |-> "p1", name |-> "100 Gems", price |-> 100, member_price |-> Undef,
   reseller_price |-> Undef]
Pkg2 ==
  [id |-> "p2", name |-> "500 Gems", price |-> 400, member_price |-> Undef,
   reseller_price |-> Undef]

\* A cart line as addToCart leaves it, with what Checkout reads of it.
\* (The line created second holds two units, the others one; the unit price
\* is the override price MenuItemCard gave addToCart.)
CheckoutLine(game, suffix, variation) ==
  [id |-> uniqueId(game.id, suffix), name |-> game.name, customFields |-> game.customFields,
   basePrice |-> 0, selectedVariation |-> variation, selectedAddOns |-> <<>>,
   quantity |-> IF suffix = 2 THEN 2 ELSE 1,
   totalPrice |-> IF HasVariation(variation) THEN variation.price ELSE 0,
   effectiveUnitPriceOverride |-> IF HasVariation(variation) THEN variation.price ELSE 0]

CartA == <<CheckoutLine(GameA, 1, Pkg1)>>
CartAA == <<CheckoutLine(GameA, 2, Pkg2), CheckoutLine(GameA, 1, Pkg1)>>
CartBB == <<CheckoutLine(GameB, 2, Pkg2), CheckoutLine(GameB, 1, Pkg1)>>
CartC == <<CheckoutLine(GameC, 1, NoVariation)>>
CartCC == <<CheckoutLine(GameC, 2, Pkg2), CheckoutLine(GameC, 1, Pkg1)>>
CartAB == <<CheckoutLine(GameB, 2, NoVariation), CheckoutLine(GameA, 1, Pkg1)>>
CartAAC ==
  <<CheckoutLine(GameC, 3, NoVariation), CheckoutLine(GameA, 2, Pkg2),
    CheckoutLine(GameA, 1, Pkg1)>>

\* The totalPrice prop of Checkout: the cart total.
checkoutTotalPrice == getTotalPrice(cartItems, currentMember)

\* What the user types into a field.
FieldInputs == {"", " ", "x"}

\* The payment methods usePaymentMethods returns.
PaymentMethodIds == {"gcash", "maya"}

\* The order a stored current_order_id may refer to, and what it holds.
OrderStatuses == {"pending", "processing", "approved", "rejected"}
AccountFields(value) == [label \in {"UID"} |-> value]
CustomerInfos ==
  {NoCustomerInfo,
   SingleAccountInfo(<<(<<"Payment Method", "GCash">>), (<<"UID", "x">>)>>),
   SingleAccountInfo(<<(<<"Payment Method", "GCash">>), (<<"IGN", "x">>)>>),
   MultipleAccountsInfo(<<[game |-> "Game A", package |-> "100 Gems",
                           fields |-> AccountFields("x")],
                          [game |-> "Game A", package |-> "500 Gems",
                           fields |-> AccountFields(" x")]>>)}
StoredOrders ==
  {[id |-> "o1", status |-> status, customer_info |-> info] :
     status \in OrderStatuses, info \in CustomerInfos}
\* customer_info is read of a rejected order only.
StoredOrdersRead ==
  {o \in StoredOrders : o.status # "rejected" => o.customer_info = NoCustomerInfo}

\* Checkout mounts on a cart, with or without a stored current_order_id; the
\* mount effect has started checkExistingOrder.
InitCheckout(carts, storedOrders, orderOptions) ==
  /\ NormIdle
  /\ CardIdle
  /\ AuthIdle
  /\ cartItems \in carts
  /\ nextSuffix = Len(cartItems) + 1
  /\ currentMember = NoMember
  /\ lastOp = "none"
  /\ addLog = <<>>
  /\ storedCart = stringify(cartItems)
  /\ cartLoad = JsonArray(cartItems)
  /\ step = "details"
  /\ paymentMethod = ""
  /\ customFieldValues = EmptyValues
  /\ useMultipleAccounts = FALSE
  /\ receiptFile = ""
  /\ receiptImageUrl = ""
  /\ receiptPreview = ""
  /\ receiptError = ""
  /\ uploadingReceipt = FALSE
  /\ previewPending = FALSE
  /\ copied = FALSE
  /\ copyPending = FALSE
  /\ hasCopiedMessage = FALSE
  /\ orderMessage = NoMessage
  /\ orderOption \in orderOptions
  /\ \/ orders = {} /\ storedOrderId \in {"", "o9"}
     \/ \E o \in storedOrders : orders = {o} /\ storedOrderId = o.id
  /\ orderCheck = IF storedOrderId # "" THEN [pc |-> "fetching", id |-> storedOrderId]
                  ELSE [pc |-> "done", id |-> ""]
  /\ isCheckingExistingOrder = (storedOrderId # "")
  /\ existingOrderStatus = ""
  /\ existingOrderId = ""
  /\ orderId = ""
  /\ messengerOpened = FALSE
  /\ bulkInputValues = EmptyValues
  /\ bulkSelectedGames = {}
  /\ isOrderModalOpen = FALSE
  /\ isPlacingOrder = FALSE
  /\ createCalls = <<>>
  /\ refetches = <<>>

\* What no Checkout handler touches.
outsideCheckout == <<normVars, cartVars, cardVars, authVars>>

\* existingOrderStatus === 'pending' || existingOrderStatus === 'processing'
fieldsDisabled == existingOrderStatus \in {"pending", "processing"}

\* checkExistingOrder after its await: fetchOrderById answers with the order
\* or with null (no such order, or the request failed).
ExistingOrderFetched(failed) ==
  LET found == IF failed THEN {} ELSE {o \in orders : o.id = orderCheck.id}
      order == CHOOSE o \in found : TRUE
      loaded == loadedValues(cartItems, order.customer_info)
  IN /\ orderCheck.pc = "fetching"
     /\ orderCheck' = [pc |-> "done", id |-> ""]
     /\ isCheckingExistingOrder' = FALSE
     /\ IF found = {}
        THEN /\ storedOrderId' = ""
             /\ UNCHANGED <<existingOrderStatus, existingOrderId, orderId, detailsVars>>
        ELSE /\ IF order.status = "rejected" /\ order.customer_info.kind # "none"
                THEN /\ useMultipleAccounts' = (order.customer_info.kind = "multiple")
                     /\ customFieldValues' =
                          IF DOMAIN loaded # {} THEN Spread(customFieldValues, loaded)
                          ELSE customFieldValues
                ELSE UNCHANGED detailsVars
             /\ storedOrderId' =
                  IF order.status \in {"approved", "rejected"} THEN "" ELSE storedOrderId
             /\ IF order.status = "approved"
                THEN existingOrderStatus' = "" /\ existingOrderId' = "" /\ orderId' = ""
                ELSE /\ existingOrderStatus' = order.status
                     /\ existingOrderId' = order.id
                     /\ orderId' = order.id
     /\ messengerOpened' = FALSE
     /\ UNCHANGED <<step, paymentMethod, receiptVars, copyVars, orderOption, orders>>
     /\ UNCHANGED <<bulkVars, placeVars, outsideCheckout>>

\* onChange of an input of the details step
TypeField(valueKey, value) ==
  /\ step = "details"
  /\ ~fieldsDisabled
  /\ valueKey \in detailsInputKeys(cartItems, useMultipleAccounts)
  /\ customFieldValues' = WithValue(customFieldValues, valueKey, value)
  /\ messengerOpened' = FALSE
  /\ UNCHANGED <<step, paymentMethod, useMultipleAccounts, receiptVars, copyVars, orderVars>>
  /\ UNCHANGED <<bulkVars, placeVars, outsideCheckout>>

\* onChange of the Multiple Accounts toggle, shown when the cart has two
\* packages of one game
\* (faulty variant: unchecking keeps the values)
ToggleMultipleAccountsKeepsValues(checked) ==
  /\ step = "details"
  /\ hasMultiplePackagesForSameGame(cartItems)
  /\ ~fieldsDisabled
  /\ checked = ~useMultipleAccounts
  /\ useMultipleAccounts' = checked
  /\ UNCHANGED customFieldValues
  /\ messengerOpened' = FALSE
  /\ UNCHANGED <<step, paymentMethod, receiptVars, copyVars, orderVars>>
  /\ UNCHANGED <<bulkVars, placeVars, outsideCheckout>>

ToggleMultipleAccounts(checked) ==
  /\ step = "details"
  /\ hasMultiplePackagesForSameGame(cartItems)
  /\ ~fieldsDisabled
  /\ checked = ~useMultipleAccounts
  /\ useMultipleAccounts' = checked
  /\ customFieldValues' = IF ~checked THEN EmptyValues ELSE customFieldValues
  /\ messengerOpened' = FALSE
  /\ UNCHANGED <<step, paymentMethod, receiptVars, copyVars, orderVars>>
  /\ UNCHANGED <<bulkVars, placeVars, outsideCheckout>>

\* handleProceedToPayment, behind the button that isDetailsValid enables
\* (faulty variant: the button is always enabled)
ProceedToPaymentUnchecked ==
  /\ step = "details"
  /\ step' = "payment"
  /\ messengerOpened' = FALSE
  /\ UNCHANGED <<paymentMethod, detailsVars, receiptVars, copyVars, orderVars>>
  /\ UNCHANGED <<bulkVars, placeVars, outsideCheckout>>

ProceedToPayment ==
  /\ step = "details"
  /\ isDetailsValid(cartItems, customFieldValues, useMultipleAccounts)
  /\ step' = "payment"
  /\ messengerOpened' = FALSE
  /\ UNCHANGED <<paymentMethod, detailsVars, receiptVars, copyVars, orderVars>>
  /\ UNCHANGED <<bulkVars, placeVars, outsideCheckout>>

\* The back button of the payment step
\* (faulty variant: going back resets the form)
BackToDetailsResets ==
  /\ step = "payment"
  /\ step' = "details"
  /\ customFieldValues' = EmptyValues
  /\ paymentMethod' = ""
  /\ messengerOpened' = FALSE
  /\ UNCHANGED <<useMultipleAccounts, receiptVars, copyVars, orderVars>>
  /\ UNCHANGED <<bulkVars, placeVars, outsideCheckout>>

BackToDetails ==
  /\ step = "payment"
  /\ step' = "details"
  /\ messengerOpened' = FALSE
  /\ UNCHANGED <<paymentMethod, detailsVars, receiptVars, copyVars, orderVars>>
  /\ UNCHANGED <<bulkVars, placeVars, outsideCheckout>>

\* onClick of a payment method
SelectPaymentMethod(methodId) ==
  /\ step = "payment"
  /\ paymentMethod' = methodId
  /\ messengerOpened' = FALSE
  /\ UNCHANGED <<step, detailsVars, receiptVars, copyVars, orderVars>>
  /\ UNCHANGED <<bulkVars, placeVars, outsideCheckout>>

\* The Confirm button of the payment step, disabled without a payment method
ConfirmPayment ==
  /\ step = "payment"
  /\ paymentMethod # ""
  /\ step' = "summary"
  /\ messengerOpened' = FALSE
  /\ UNCHANGED <<paymentMethod, detailsVars, receiptVars, copyVars, orderVars>>
  /\ UNCHANGED <<bulkVars, placeVars, outsideCheckout>>

\* The back button of the summary step
BackToPayment ==
  /\ step = "summary"
  /\ step' = "payment"
  /\ messengerOpened' = FALSE
  /\ UNCHANGED <<paymentMethod, detailsVars, receiptVars, copyVars, orderVars>>
  /\ UNCHANGED <<bulkVars, placeVars, outsideCheckout>>

\* onChange of an input of the summary step, editable for a rejected order
TypeSummaryField(valueKey, value) ==
  /\ step = "summary"
  /\ existingOrderStatus = "rejected"
  /\ valueKey \in detailsInputKeys(cartItems, FALSE)
  /\ customFieldValues' = WithValue(customFieldValues, valueKey, value)
  /\ messengerOpened' = FALSE
  /\ UNCHANGED <<step, paymentMethod, useMultipleAccounts, receiptVars, copyVars, orderVars>>
  /\ UNCHANGED <<bulkVars, placeVars, outsideCheckout>>

\* handleReceiptUpload up to its await: the file input is shown while there is
\* no preview and no upload is running.
ReceiptUploadStarted ==
  /\ step = "summary"
  /\ receiptPreview = ""
  /\ ~uploadingReceipt
  /\ receiptError' = ""
  /\ receiptFile' = "file"
  /\ previewPending' = TRUE
  /\ uploadingReceipt' = TRUE
  /\ messengerOpened' = FALSE
  /\ UNCHANGED <<step, paymentMethod, detailsVars, receiptImageUrl, receiptPreview, copyVars,
                 orderVars>>
  /\ UNCHANGED <<bulkVars, placeVars, outsideCheckout>>

\* reader.onload
PreviewLoaded ==
  /\ previewPending
  /\ previewPending' = FALSE
  /\ receiptPreview' = "data"
  /\ messengerOpened' = FALSE
  /\ UNCHANGED <<step, paymentMethod, detailsVars, receiptFile, receiptImageUrl, receiptError,
                 uploadingReceipt, copyVars, orderVars>>
  /\ UNCHANGED <<bulkVars, placeVars, outsideCheckout>>

\* uploadImage answers with the URL
ReceiptUploaded ==
  /\ uploadingReceipt
  /\ uploadingReceipt' = FALSE
  /\ receiptImageUrl' = "url"
  /\ messengerOpened' = FALSE
  /\ UNCHANGED <<step, paymentMethod, detailsVars, receiptFile, receiptPreview, receiptError,
                 previewPending, copyVars, orderVars>>
  /\ UNCHANGED <<bulkVars, placeVars, outsideCheckout>>

\* uploadImage throws
ReceiptUploadFailed ==
  /\ uploadingReceipt
  /\ uploadingReceipt' = FALSE
  /\ receiptError' = "Failed to upload receipt"
  /\ receiptFile' = ""
  /\ receiptPreview' = ""
  /\ messengerOpened' = FALSE
  /\ UNCHANGED <<step, paymentMethod, detailsVars, receiptImageUrl, previewPending, copyVars,
                 orderVars>>
  /\ UNCHANGED <<bulkVars, placeVars, outsideCheckout>>

\* handleReceiptRemove, behind the remove button of the preview
handleReceiptRemove ==
  /\ step = "summary"
  /\ receiptPreview # ""
  /\ ~uploadingReceipt
  /\ receiptFile' = ""
  /\ receiptImageUrl' = ""
  /\ receiptPreview' = ""
  /\ receiptError' = ""
  /\ hasCopiedMessage' = FALSE
  /\ messengerOpened' = FALSE
  /\ UNCHANGED <<step, paymentMethod, detailsVars, uploadingReceipt, previewPending, copied,
                 copyPending, orderMessage, orderVars>>
  /\ UNCHANGED <<bulkVars, placeVars, outsideCheckout>>

\* paymentMethod && receiptImageUrl && !uploadingReceipt: what the copy button
\* needs
canCopyMessage == paymentMethod # "" /\ receiptImageUrl # "" /\ ~uploadingReceipt

\* handleCopyMessage up to its await
CopyMessageClicked ==
  /\ step = "summary"
  /\ orderOption = "order_via_messenger"
  /\ canCopyMessage
  /\ orderMessage' = generateOrderMessage(cartItems, checkoutTotalPrice, paymentMethod,
                                         receiptImageUrl)
  /\ copyPending' = TRUE
  /\ messengerOpened' = FALSE
  /\ UNCHANGED <<step, paymentMethod, detailsVars, receiptVars, copied, hasCopiedMessage,
                 orderVars>>
  /\ UNCHANGED <<bulkVars, placeVars, outsideCheckout>>

\* navigator.clipboard.writeText resolves
ClipboardWritten ==
  /\ copyPending
  /\ copyPending' = FALSE
  /\ copied' = TRUE
  /\ hasCopiedMessage' = TRUE
  /\ messengerOpened' = FALSE
  /\ UNCHANGED <<step, paymentMethod, detailsVars, receiptVars, orderMessage, orderVars>>
  /\ UNCHANGED <<bulkVars, placeVars, outsideCheckout>>

\* navigator.clipboard.writeText rejects
ClipboardFailed ==
  /\ copyPending
  /\ copyPending' = FALSE
  /\ messengerOpened' = FALSE
  /\ UNCHANGED <<step, paymentMethod, detailsVars, receiptVars, copied, hasCopiedMessage,
                 orderMessage, orderVars>>
  /\ UNCHANGED <<bulkVars, placeVars, outsideCheckout>>

\* setTimeout(() => setCopied(false), 2000)
CopiedTimeout ==
  /\ copied
  /\ copied' = FALSE
  /\ messengerOpened' = FALSE
  /\ UNCHANGED <<step, paymentMethod, detailsVars, receiptVars, copyPending, hasCopiedMessage,
                 orderMessage, orderVars>>
  /\ UNCHANGED <<bulkVars, placeVars, outsideCheckout>>

\* The 'Order via Messenger' button is enabled.
\* (faulty variant: the button does not wait for the copy)
canOrderViaMessengerWithoutCopy == canCopyMessage

canOrderViaMessenger == canCopyMessage /\ hasCopiedMessage

\* handlePlaceOrder: the m.me link is opened with the order message.
handlePlaceOrder ==
  /\ step = "summary"
  /\ orderOption = "order_via_messenger"
  /\ canOrderViaMessenger
  /\ IF paymentMethod = ""
     THEN receiptError' = "Please select a payment method" /\ messengerOpened' = FALSE
     ELSE IF receiptImageUrl = ""
     THEN /\ receiptError' = "Please upload your payment receipt before placing the order"
          /\ messengerOpened' = FALSE
     ELSE /\ messengerOpened' = TRUE
          /\ UNCHANGED receiptError
  /\ orderMessage' = IF paymentMethod = "" \/ receiptImageUrl = "" THEN orderMessage
                     ELSE generateOrderMessage(cartItems, checkoutTotalPrice, paymentMethod,
                                               receiptImageUrl)
  /\ UNCHANGED <<step, paymentMethod, detailsVars, receiptFile, receiptImageUrl, receiptPreview,
                 uploadingReceipt, previewPending, copied, copyPending, hasCopiedMessage,
                 orderVars>>
  /\ UNCHANGED <<bulkVars, placeVars, outsideCheckout>>

\* The details step alone: the fields, the mode and the way to payment and
\* back.
NextDetails ==
  \/ \E failed \in BOOLEAN : ExistingOrderFetched(failed)
  \/ \E valueKey \in detailsInputKeys(cartItems, useMultipleAccounts), value \in FieldInputs :
       TypeField(valueKey, value)
  \/ \E checked \in BOOLEAN : ToggleMultipleAccounts(checked)
  \/ ProceedToPayment
  \/ BackToDetails

InitDetails ==
  \/ InitCheckout({CartA, CartAA, CartC, CartCC, CartAB, CartAAC}, StoredOrdersRead,
                  {"order_via_messenger"})
  \/ InitCheckout({CartBB}, {}, {"order_via_messenger"})

SpecDetails == InitDetails /\ [][NextDetails]_vars

\* The three steps of the wizard in messenger hand-off mode.
WizardInputs == {" ", "x"}
WizardOrders ==
  {o \in StoredOrdersRead :
     \/ o.status = "pending"
     \/ o.status = "rejected" /\ o.customer_info = NoCustomerInfo}

NextCheckout ==
  \/ \E failed \in BOOLEAN : ExistingOrderFetched(failed)
  \/ \E valueKey \in detailsInputKeys(cartItems, useMultipleAccounts), value \in WizardInputs :
       TypeField(valueKey, value)
  \/ \E valueKey \in detailsInputKeys(cartItems, FALSE), value \in WizardInputs :
       TypeSummaryField(valueKey, value)
  \/ \E checked \in BOOLEAN : ToggleMultipleAccounts(checked)
  \/ ProceedToPayment
  \/ BackToDetails
  \/ \E methodId \in PaymentMethodIds : SelectPaymentMethod(methodId)
  \/ ConfirmPayment
  \/ BackToPayment
  \/ ReceiptUploadStarted
  \/ PreviewLoaded
  \/ ReceiptUploaded
  \/ ReceiptUploadFailed
  \/ handleReceiptRemove
  \/ CopyMessageClicked
  \/ ClipboardWritten
  \/ ClipboardFailed
  \/ CopiedTimeout
  \/ handlePlaceOrder

InitWizard == InitCheckout({CartA, CartAAC}, WizardOrders, {"order_via_messenger"})

SpecCheckout == InitWizard /\ [][NextCheckout]_vars
\* ----------------------------------------------------------- bulk entry
\* The bulk section is rendered in the details step, in single-account mode,
\* for a cart with two games or more that ask for fields; none of its inputs
\* has a disabled attribute.
bulkSectionShown ==
  /\ step = "details"
  /\ ~useMultipleAccounts
  /\ Len(itemsWithCustomFields(cartItems)) >= 2

\* handleBulkGameSelectionChange, behind a game's checkbox, and the bulk sync
\* effect that the new bulkSelectedGames starts
handleBulkGameSelectionChange(itemId, checked) ==
  LET originalId == getOriginalMenuItemId(itemId)
  IN /\ bulkSectionShown
     /\ \E n \in 1..Len(itemsWithCustomFields(cartItems)) :
          itemsWithCustomFields(cartItems)[n].id = itemId
     /\ checked = (originalId \notin bulkSelectedGames)
     /\ bulkSelectedGames' = IF checked THEN bulkSelectedGames \cup {originalId}
                             ELSE bulkSelectedGames \ {originalId}
     /\ customFieldValues' =
          bulkSync(cartItems, customFieldValues, bulkSelectedGames', bulkInputValues)
     /\ messengerOpened' = FALSE
     /\ UNCHANGED <<step, paymentMethod, useMultipleAccounts, receiptVars, copyVars, orderVars,
                    bulkInputValues, placeVars>>
     /\ UNCHANGED outsideCheckout

\* handleBulkInputChange, behind the bulk input of a position, and the bulk
\* sync effect that the new bulkInputValues starts
handleBulkInputChange(fieldIndex, value) ==
  /\ bulkSectionShown
  /\ bulkSelectedGames # {}
  /\ fieldIndex \in bulkInputFields(cartItems, bulkSelectedGames)
  /\ bulkInputValues' = WithValue(bulkInputValues, fieldIndex, value)
  /\ customFieldValues' =
       bulkSync(cartItems, customFieldValues, bulkSelectedGames, bulkInputValues')
  /\ messengerOpened' = FALSE
  /\ UNCHANGED <<step, paymentMethod, useMultipleAccounts, receiptVars, copyVars, orderVars,
                 bulkSelectedGames, placeVars>>
  /\ UNCHANGED outsideCheckout

\* The details step of a cart of two games, with bulk entry.
BulkInputs == {"x", "y"}
BulkPositions == {0, 1}
BulkOrders ==
  {o \in StoredOrdersRead :
     \/ o.status = "pending"
     \/ o.status = "rejected" /\ o.customer_info.kind = "single"}

NextBulk ==
  \/ \E failed \in BOOLEAN : ExistingOrderFetched(failed)
  \/ \E valueKey \in detailsInputKeys(cartItems, useMultipleAccounts), value \in BulkInputs :
       TypeField(valueKey, value)
  \/ \E n \in 1..Len(cartItems), checked \in BOOLEAN :
       handleBulkGameSelectionChange(cartItems[n].id, checked)
  \/ \E fieldIndex \in BulkPositions, value \in BulkInputs :
       handleBulkInputChange(fieldIndex, value)
  \/ ProceedToPayment
  \/ BackToDetails

InitBulk == InitCheckout({CartAB}, BulkOrders, {"order_via_messenger"})

SpecBulk == InitBulk /\ [][NextBulk]_vars
\* ---------------------------------------------------------- direct order
\* Orders created in one run.
MaxOrders == 2
\* fetchOrderById requests of the order modal awaiting their answer at one
\* time.
MaxRefetches == 1

\* The Place Order button is enabled.
canPlaceOrderDirect ==
  paymentMethod # "" /\ receiptImageUrl # "" /\ ~uploadingReceipt /\ ~isPlacingOrder

\* handlePlaceOrderDirect up to its await, behind the Place Order button,
\* which the summary step shows unless the order is pending or processing.
PlaceOrderClicked ==
  /\ step = "summary"
  /\ orderOption = "place_order"
  /\ ~fieldsDisabled
  /\ canPlaceOrderDirect
  /\ Cardinality(orders) + Len(createCalls) < MaxOrders
  /\ IF paymentMethod = ""
     THEN /\ receiptError' = "Please select a payment method"
          /\ UNCHANGED <<isPlacingOrder, createCalls>>
     ELSE IF receiptImageUrl = ""
     THEN /\ receiptError' = "Please upload your payment receipt before placing the order"
          /\ UNCHANGED <<isPlacingOrder, createCalls>>
     ELSE /\ isPlacingOrder' = TRUE
          /\ receiptError' = ""
          /\ createCalls' =
               Append(createCalls,
                      customerInfoOf(cartItems, customFieldValues, useMultipleAccounts,
                                     paymentMethod))
  /\ messengerOpened' = FALSE
  /\ UNCHANGED <<step, paymentMethod, detailsVars, receiptFile, receiptImageUrl, receiptPreview,
                 uploadingReceipt, previewPending, copyVars, orderVars, bulkVars,
                 isOrderModalOpen, refetches>>
  /\ UNCHANGED outsideCheckout

\* createOrder answers with the new order, which the backend has stored as
\* pending under a fresh id.
OrderCreated ==
  LET newOrder ==
        [id |-> "o" \o ToString(Cardinality(orders) + 2), status |-> "pending",
         customer_info |-> Head(createCalls)]
  IN /\ createCalls # <<>>
     /\ createCalls' = Tail(createCalls)
     /\ orders' = orders \cup {newOrder}
     /\ orderId' = newOrder.id
     /\ existingOrderId' = newOrder.id
     /\ existingOrderStatus' = newOrder.status
     /\ storedOrderId' = newOrder.id
     /\ isOrderModalOpen' = TRUE
     /\ isPlacingOrder' = FALSE
     /\ messengerOpened' = FALSE
     /\ UNCHANGED <<step, paymentMethod, detailsVars, receiptVars, copyVars, orderOption,
                    orderCheck, isCheckingExistingOrder, bulkVars, refetches>>
     /\ UNCHANGED outsideCheckout

\* createOrder answers with null, or throws
CreateOrderFailed ==
  /\ createCalls # <<>>
  /\ createCalls' = Tail(createCalls)
  /\ receiptError' = "Failed to create order. Please try again."
  /\ isPlacingOrder' = FALSE
  /\ messengerOpened' = FALSE
  /\ UNCHANGED <<step, paymentMethod, detailsVars, receiptFile, receiptImageUrl, receiptPreview,
                 uploadingReceipt, previewPending, copyVars, orderVars, bulkVars,
                 isOrderModalOpen, refetches>>
  /\ UNCHANGED outsideCheckout

\* onClick of the View Order button, which the summary step shows in place of
\* Place Order while the order is pending or processing
ViewOrderClicked ==
  /\ step = "summary"
  /\ orderOption = "place_order"
  /\ fieldsDisabled
  /\ IF existingOrderId # ""
     THEN orderId' = existingOrderId /\ isOrderModalOpen' = TRUE
     ELSE UNCHANGED <<orderId, isOrderModalOpen>>
  /\ messengerOpened' = FALSE
  /\ UNCHANGED <<step, paymentMethod, detailsVars, receiptVars, copyVars, orderOption, orders,
                 storedOrderId, orderCheck, existingOrderStatus, existingOrderId,
                 isCheckingExistingOrder, bulkVars, isPlacingOrder, createCalls, refetches>>
  /\ UNCHANGED outsideCheckout

\* onClose of OrderStatusModal up to the answer of fetchOrderById
OrderModalClosed ==
  /\ isOrderModalOpen
  /\ Len(refetches) < MaxRefetches
  /\ isOrderModalOpen' = FALSE
  /\ refetches' = IF orderId # "" THEN Append(refetches, orderId) ELSE refetches
  /\ messengerOpened' = FALSE
  /\ UNCHANGED <<step, paymentMethod, detailsVars, receiptVars, copyVars, orderVars, bulkVars,
                 isPlacingOrder, createCalls>>
  /\ UNCHANGED outsideCheckout

\* fetchOrderById(orderId).then of onClose: the order, or null
OrderRefetched(failed) ==
  LET found == IF failed THEN {} ELSE {o \in orders : o.id = Head(refetches)}
      order == CHOOSE o \in found : TRUE
  IN /\ refetches # <<>>
     /\ refetches' = Tail(refetches)
     /\ IF found = {}
        THEN UNCHANGED <<storedOrderId, existingOrderStatus, existingOrderId, orderId>>
        ELSE /\ storedOrderId' =
                  IF order.status \in {"approved", "rejected"} THEN "" ELSE storedOrderId
             /\ IF order.status = "approved"
                THEN existingOrderStatus' = "" /\ existingOrderId' = "" /\ orderId' = ""
                ELSE /\ existingOrderStatus' = order.status
                     /\ UNCHANGED <<existingOrderId, orderId>>
     /\ messengerOpened' = FALSE
     /\ UNCHANGED <<step, paymentMethod, detailsVars, receiptVars, copyVars, orderOption, orders,
                    orderCheck, isCheckingExistingOrder, bulkVars, isOrderModalOpen,
                    isPlacingOrder, createCalls>>
     /\ UNCHANGED outsideCheckout

\* The backend moves an order on: a pending order is taken into processing,
\* a pending or processing order is approved or rejected.
OrderStatusChanged(id, status) ==
  /\ \E o \in orders :
       /\ o.id = id
       /\ \/ o.status = "pending" /\ status \in {"processing", "approved", "rejected"}
          \/ o.status = "processing" /\ status \in {"approved", "rejected"}
       /\ orders' = (orders \ {o}) \cup {[o EXCEPT !.status = status]}
  /\ messengerOpened' = FALSE
  /\ UNCHANGED <<step, paymentMethod, detailsVars, receiptVars, copyVars, orderOption,
                 storedOrderId, orderCheck, existingOrderStatus, existingOrderId, orderId,
                 isCheckingExistingOrder, bulkVars, placeVars>>
  /\ UNCHANGED outsideCheckout

\* The wizard in direct-order mode.
DirectInputs == {"x"}
DirectOrders == {o \in StoredOrdersRead : o.customer_info = NoCustomerInfo}

NextDirect ==
  \/ \E failed \in BOOLEAN : ExistingOrderFetched(failed)
  \/ \E valueKey \in detailsInputKeys(cartItems, useMultipleAccounts), value \in DirectInputs :
       TypeField(valueKey, value)
  \/ \E checked \in BOOLEAN : ToggleMultipleAccounts(checked)
  \/ \E n \in 1..Len(cartItems), checked \in BOOLEAN :
       handleBulkGameSelectionChange(cartItems[n].id, checked)
  \/ \E fieldIndex \in BulkPositions, value \in DirectInputs :
       handleBulkInputChange(fieldIndex, value)
  \/ ProceedToPayment
  \/ \E methodId \in {"gcash"} : SelectPaymentMethod(methodId)
  \/ ConfirmPayment
  \/ ReceiptUploadStarted
  \/ PreviewLoaded
  \/ ReceiptUploaded
  \/ PlaceOrderClicked
  \/ OrderCreated
  \/ CreateOrderFailed
  \/ ViewOrderClicked
  \/ OrderModalClosed
  \/ \E failed \in BOOLEAN : OrderRefetched(failed)
  \/ \E id \in {o.id : o \in orders}, status \in OrderStatuses : OrderStatusChanged(id, status)

InitDirect == InitCheckout({CartAA, CartAB}, DirectOrders, {"place_order"})

SpecDirect == InitDirect /\ [][NextDirect]_vars
\* ------------------------------------------------------------- claims
\* The permutations of a list.
Shuffles(s) ==
  {[i \in 1..Len(s) |-> s[p[i]]] :
     p \in {f \in [1..Len(s) -> 1..Len(s)] : \A i, j \in 1..Len(s) : f[i] = f[j] => i = j}}

\* The quantity a list gives an add-on id: the sum of the quantities of its
\* entries with that id, a missing quantity counting as 1.
RECURSIVE QtyOf(_, _)
QtyOf(addOns, id) ==
  IF addOns = <<>> THEN 0
  ELSE QtyOf(Tail(addOns), id)
       + (IF Head(addOns).id = id THEN CoalesceOne(Head(addOns).quantity) ELSE 0)

\* C3: normalizeAddOns is idempotent, and the normal form of every
\* permutation of a list is the normal form of the list.
C3_NormalizeIdempotentOrderIndependent ==
  normDone =>
    /\ normalizeAddOns(normOut) = normOut
    /\ \A p \in Shuffles(normIn) : normalizeAddOns(p) = normOut

\* C4: the normal form has one entry per add-on id of the list, carrying the
\* sum of that id's quantities, and its entries are sorted by id.
C4_NormalizeCoalescesAndSorts ==
  normDone =>
    /\ \A i, j \in 1..Len(normOut) : i < j => IdBefore(normOut[i].id, normOut[j].id)
    /\ {normOut[i].id : i \in 1..Len(normOut)} = {normIn[i].id : i \in 1..Len(normIn)}
    /\ \A i \in 1..Len(normOut) : normOut[i].quantity = QtyOf(normIn, normOut[i].id)

\* The configuration of a cart line as the cart stores it: the menu item it
\* came from, its variation id (or none) and its add-on multiset.
LineTriple(line) ==
  <<originalMenuItemId(line.id),
    IF HasVariation(line.selectedVariation) THEN line.selectedVariation.id ELSE "none",
    [id \in AddOnIdSet |-> QtyOf(line.selectedAddOns, id)]>>

\* C1: no two cart lines have the same (menu item id, variation id or none,
\* normalized add-on multiset) triple.
C1_NoTwoLinesShareATriple ==
  \A i, j \in 1..Len(cartItems) :
    i < j => LineTriple(cartItems[i]) # LineTriple(cartItems[j])

\* C1's case: an add merged into one of two lines of the same item and
\* variation that differ only in their add-ons.
C1_Witness ==
  /\ lastOp = "addToCart"
  /\ Len(cartItems) = 2
  /\ LineTriple(cartItems[1])[1] = LineTriple(cartItems[2])[1]
  /\ LineTriple(cartItems[1])[2] = LineTriple(cartItems[2])[2]
  /\ cartItems[1].selectedAddOns # <<>>
  /\ cartItems[2].selectedAddOns # <<>>
  /\ cartItems[2].quantity = 2

\* C2: two addToCart calls on an empty cart with the same item, variation and
\* add-on multiset, in whatever shape and order the add-ons are passed, leave
\* exactly one line, with the sum of the two quantities.
C2_TwoEqualAddsMerge ==
  (/\ Len(addLog) = 2
   /\ addLog[1].item.id = addLog[2].item.id
   /\ addLog[1].variation.id = addLog[2].variation.id
   /\ \A id \in AddOnIdSet : QtyOf(addLog[1].addOns, id) = QtyOf(addLog[2].addOns, id))
  => /\ Len(cartItems) = 1
     /\ cartItems[1].quantity = addLog[1].quantity + addLog[2].quantity

\* The price the claim gives a variation for a member: reseller_price for a
\* reseller and member_price for an end user when the variation has one,
\* otherwise the variation's price; nothing without a variation.
TierPrice(variation, member) ==
  CASE ~HasVariation(variation) -> 0
    [] /\ HasVariation(variation)
       /\ member.user_type = "reseller"
       /\ variation.reseller_price \notin {Undef, Null} -> variation.reseller_price
    [] /\ HasVariation(variation)
       /\ member.user_type = "end_user"
       /\ variation.member_price \notin {Undef, Null} -> variation.member_price
    [] OTHER -> variation.price

RECURSIVE SumOver(_, _)
SumOver(S, f) ==
  IF S = {} THEN 0 ELSE LET x == CHOOSE y \in S : TRUE IN f[x] + SumOver(S \ {x}, f)

ExpectedUnitPrice(line, member) ==
  IF line.effectiveUnitPriceOverride # Undef
  THEN line.effectiveUnitPriceOverride
  ELSE line.basePrice
       + TierPrice(line.selectedVariation, member)
       + SumOver(AddOnIdSet, [id \in AddOnIdSet |->
                                AddOnPrice[id] * QtyOf(line.selectedAddOns, id)])

\* C7: getTotalPrice() is the sum over the cart lines of effective unit price
\* times quantity, the unit price being the line's override when it has one
\* and otherwise base price + member-tier variation price + add-on prices
\* times add-on quantities, for the current member.
C7_TotalIsSumOfEffectiveUnitPrices ==
  getTotalPrice(cartItems, currentMember)
    = SumOver(1..Len(cartItems),
              [i \in 1..Len(cartItems) |->
                 ExpectedUnitPrice(cartItems[i], currentMember) * cartItems[i].quantity])

\* C7's case: a reseller's cart holding a line with an override price and a
\* tier-priced line without one, right after the member changed.
C7_Witness ==
  /\ lastOp = "memberChanges"
  /\ currentMember.user_type = "reseller"
  /\ \E i, j \in 1..Len(cartItems) :
       /\ cartItems[i].effectiveUnitPriceOverride = 55
       /\ cartItems[j].effectiveUnitPriceOverride = Undef
       /\ cartItems[j].selectedVariation = V1
       /\ cartItems[j].selectedAddOns # <<>>
       /\ cartItems[j].quantity = 2

\* C8: updateQuantity(id, q) with q <= 0 leaves the cart removeFromCart(id)
\* would leave; with q > 0 it sets the quantity of the line with that id and
\* changes nothing else; with an unknown id it changes nothing.
C8_UpdateQuantity ==
  [][\A id \in LineIds, q \in (0 - 1)..MaxQty :
       (lastOp' = "updateQuantity" /\ UpdateQuantity(id, q)) =>
         /\ q <= 0 =>
              /\ cartItems' = removeFromCart(cartItems, id)
              /\ cartItems' = SelectSeq(cartItems, LAMBDA line : line.id # id)
         /\ q > 0 =>
              /\ Len(cartItems') = Len(cartItems)
              /\ \A i \in 1..Len(cartItems) :
                   IF cartItems[i].id = id
                   THEN cartItems'[i] = [cartItems[i] EXCEPT !.quantity = q]
                   ELSE cartItems'[i] = cartItems[i]
         /\ (\A i \in 1..Len(cartItems) : cartItems[i].id # id) => cartItems' = cartItems
    ]_vars

\* C8's case: updateQuantity ran last on a cart that had two lines, one of
\* which is gone, the other carrying the quantity it was set to.
C8_Witness ==
  /\ lastOp = "updateQuantity"
  /\ nextSuffix = 3
  /\ Len(cartItems) = 1
  /\ cartItems[1].quantity = 2


\* The configuration of an addToCart call: the menu item, the variation id
\* (or none) and the multiset of the add-ons passed.
CallTriple(item, variation, addOns) ==
  <<item.id,
    IF HasVariation(variation) THEN variation.id ELSE "none",
    [id \in AddOnIdSet |-> QtyOf(addOns, id)]>>

\* C25: an addToCart that merges into an existing line changes only that
\* line's quantity, which grows by the call's quantity: the line's id,
\* position, totalPrice, override, variation and add-ons, and every other
\* line, stay as they were, whatever override price the call carried and
\* whatever member the cart is rendered for by then.
C25_MergeChangesQuantityOnly ==
  [][\A config \in TotalConfigs, quantity \in AddQtys, effectiveUnitPrice \in OverridePrices :
       (/\ lastOp' = "addToCart"
        /\ AddToCart(config[1], quantity, config[2], config[3], effectiveUnitPrice)
        /\ \E i \in 1..Len(cartItems) :
             LineTriple(cartItems[i]) = CallTriple(config[1], config[2], config[3]))
       => \E k \in 1..Len(cartItems) :
            /\ LineTriple(cartItems[k]) = CallTriple(config[1], config[2], config[3])
            /\ Len(cartItems') = Len(cartItems)
            /\ cartItems'[k].quantity = cartItems[k].quantity + quantity
            /\ cartItems'[k] = [cartItems[k] EXCEPT !.quantity = cartItems'[k].quantity]
            /\ \A i \in 1..Len(cartItems) : i # k => cartItems'[i] = cartItems[i]
    ]_vars

\* C25's case: a line created for a guest without an override (so at the
\* guest's price), merged into after the member became a reseller.
C25_Witness ==
  /\ lastOp = "addToCart"
  /\ currentMember = Reseller
  /\ nextSuffix = 2
  /\ Len(cartItems) = 1
  /\ cartItems[1].selectedVariation = V1
  /\ cartItems[1].totalPrice = 110
  /\ cartItems[1].effectiveUnitPriceOverride = Undef
  /\ cartItems[1].quantity = 2

C28_StoredPriceIsEffectivePrice ==
  /\ \A i \in 1..Len(cartItems) :
       cartItems[i].totalPrice = getEffectiveUnitPrice(cartItems[i], currentMember)
  /\ SumOver(1..Len(cartItems),
             [i \in 1..Len(cartItems) |-> cartItems[i].totalPrice * cartItems[i].quantity])
       = getTotalPrice(cartItems, currentMember)

\* An entry that is missing or corrupt: no text, a text that does not parse,
\* or JSON that is not an array.
MissingOrCorrupt(entry) == entry.kind # "json" \/ entry.value.type # "array"

\* C24: loading the cart yields the empty cart whenever the stored entry is
\* missing or corrupt; after every cart mutation the stored entry is the
\* serialization of the cart, so a reload yields the same lines in the same
\* order.
C24_LoadAndSave ==
  /\ [][LoadCart =>
          /\ MissingOrCorrupt(storedCart) => (cartLoad' = JsonArray(<<>>) /\ cartItems' = <<>>)
          /\ ~MissingOrCorrupt(storedCart) => cartItems' = cartItems
       ]_vars
  /\ [](cartIsArray =>
          /\ storedCart.kind = "json"
          /\ storedCart.value.type = "array"
          /\ Len(storedCart.value.items) = Len(cartItems)
          /\ loadCartItems(storedCart) = JsonArray(cartItems))
\* A tier price the variation defines: a number, neither undefined nor null.
Defines(x) == x \notin {Undef, Null}

CatalogPrice(v) ==
  getDiscountedPriceSync(cardItem, cardVariations, memberDiscounts, currentMember,
                         v.price, v.id)

\* C5: a reseller is priced at reseller_price, never at member_price or the
\* base price, for every variation that defines both tier prices, by the cart
\* resolver and by the catalog resolver, whatever the item's discount flag
\* and the negotiated prices are.
C5_ResellerGetsResellerPrice ==
  \A v \in cardVariations :
    (/\ currentMember # NoMember
     /\ currentMember.user_type = "reseller"
     /\ Defines(v.reseller_price)
     /\ Defines(v.member_price))
    => /\ getVariationPriceForMember(v, currentMember) = v.reseller_price
       /\ CatalogPrice(v) = v.reseller_price
       /\ v.reseller_price # v.member_price => CatalogPrice(v) # v.member_price
       /\ v.reseller_price # v.price => CatalogPrice(v) # v.price

\* C5's case: a reseller picked a package with both tier prices on a card of
\* a discounted item that has cached a negotiated price for that package.
C5_Witness ==
  /\ lastOp = "handleItemSelect"
  /\ currentMember = Reseller
  /\ cardItem.isOnDiscount
  /\ cardItem.discountPercentage = 25
  /\ memberDiscounts["v2"] = 70
  /\ \E i \in 1..Len(cartItems) :
       /\ cartItems[i].selectedVariation.id = "v2"
       /\ cartItems[i].effectiveUnitPriceOverride = cardItem.basePrice + 160

\* The first applicable tier of the catalog resolver, in the claimed order.
ExpectedCatalogPrice(v) ==
  IF currentMember # NoMember /\ currentMember.user_type = "reseller"
     /\ Defines(v.reseller_price)
  THEN v.reseller_price
  ELSE IF currentMember # NoMember /\ currentMember.user_type = "end_user"
          /\ Defines(v.member_price)
  THEN v.member_price
  ELSE IF currentMember # NoMember /\ currentMember.user_type = "reseller"
          /\ Defines(memberDiscounts[v.id])
  THEN memberDiscounts[v.id]
  ELSE IF cardItem.isOnDiscount /\ Defines(cardItem.discountPercentage)
  THEN v.price - (v.price * cardItem.discountPercentage) \div 100
  ELSE v.price

\* C6: getDiscountedPriceSync returns the price of the first applicable tier:
\* reseller_price for a reseller when the variation defines it, member_price
\* for an end user when the variation defines it, the cached negotiated price
\* of a reseller when there is one, the discounted price when the item is on
\* discount, and the base price otherwise.
C6_CatalogPriceIsFirstApplicableTier ==
  \A v \in cardVariations : CatalogPrice(v) = ExpectedCatalogPrice(v)


\* C29: for an item without a generic discount and without negotiated
\* discount records, the catalog resolver and the cart resolver give the same
\* number for every member and every variation, also when member_price or
\* reseller_price is undefined or null; so the override price the card hands
\* to addToCart is the price the cart would compute.
C29_ResolversAgree ==
  (~cardItem.isOnDiscount /\ backendDiscounts = NoDiscounts /\ memberDiscounts = NoDiscounts)
  => \A v \in cardVariations :
       /\ CatalogPrice(v) = getVariationPriceForMember(v, currentMember)
       /\ cardItem.basePrice + ToNumber(CatalogPrice(v))
            = calculateItemPrice(cardItem, v, <<>>, currentMember)
\* No two rows of a members table share an email or a username.
UniqueMembers(table) ==
  \A m, n \in table : (m.email = n.email \/ m.username = n.username) => m = n

\* C9: login establishes a session (currentMember set, member_id stored) only
\* for an active member with that email whose stored hash is the digest of
\* the password; it returns the invalid-credentials error when no member has
\* the email or the hash differs and the inactive-account error when the
\* member is not active; a failed login leaves currentMember and the stored
\* member_id as they were.
C9_Login ==
  [][(loginCall.pc \in {"lookup", "verify"} /\ loginCall'.pc = "done") =>
       LET matches == {m \in members : m.email = loginCall.email}
           digestMatches(m) == hashPassword(loginCall.password) = m.password_hash
       IN /\ loginCall'.result = "success"
               <=> \E m \in matches : m.status = "active" /\ digestMatches(m)
          /\ loginCall'.result = "success" =>
               /\ currentMember' \in matches
               /\ currentMember'.status = "active"
               /\ storedMemberId' = currentMember'.id
          /\ matches = {} => loginCall'.result = "Invalid email or password"
          /\ (\E m \in matches : m.status # "active") =>
               loginCall'.result = "Account is inactive"
          /\ (\E m \in matches : m.status = "active" /\ ~digestMatches(m)) =>
               loginCall'.result = "Invalid email or password"
          /\ loginCall'.result # "success" =>
               UNCHANGED <<currentMember, storedMemberId>>
    ]_vars

\* C9's case: a login has succeeded and its member is the session.
C9_Witness ==
  /\ loginCall = Done("success")
  /\ currentMember = EndUser
  /\ storedMemberId = EndUser.id
  /\ Inactive \in members

C11_Startup ==
  /\ loading = TRUE
  /\ <>[](~loading)
  /\ [][~loading => ~loading']_vars
  /\ [][\A i \in 1..Len(checks), failed \in BOOLEAN :
          CheckAuthReturns(i, failed) =>
            LET found == {m \in members : m.id = checks[i].id /\ m.status = "active"} IN
            /\ ~loading'
            /\ (~failed /\ found # {}) =>
                 currentMember' \in found /\ storedMemberId' = storedMemberId
            /\ (failed \/ found = {}) =>
                 currentMember' = NoMember /\ storedMemberId' = NoId
       ]_vars
  /\ [][(Mount /\ storedMemberId = NoId) => (currentMember' = NoMember /\ ~loading')]_vars

\* C11's case: the startup check of a stored id found its active member.
C11_Witness ==
  /\ mounted
  /\ ~loading
  /\ checks = <<>>
  /\ currentMember = EndUser
  /\ storedMemberId = EndUser.id
  /\ ~loggedOut

\* C12: once logout has returned and every checkAuth started before it by a
\* login, a registration or a storage event has completed, currentMember is
\* null and local storage has no member_id.
C12_LogoutClearsSession ==
  (loggedOut /\ checks = <<>>) => (currentMember = NoMember /\ storedMemberId = NoId)

\* C13: every successful login, every successful registration and every
\* logout dispatches memberAuthUpdate, and no failed login or registration
\* dispatches it.
C13_SessionChangeSignal ==
  [][/\ (loginCall.pc = "verify" /\ loginCall' = Done("success")) => authEvent'
     /\ (regCall.pc = "inserted" /\ regCall' = Done("success")) => authEvent'
     /\ Logout => authEvent'
     /\ (loginCall' # loginCall /\ loginCall'.pc = "done" /\ loginCall'.result # "success")
          => ~authEvent'
     /\ (regCall' # regCall /\ regCall'.pc = "done" /\ regCall'.result # "success")
          => ~authEvent'
    ]_vars

\* The games of the cart that define custom fields, and the fields of a game.
GamesWithFields(cart) ==
  {getOriginalMenuItemId(cart[i].id) : i \in {j \in 1..Len(cart) : cart[j].customFields # <<>>}}
FieldsOfGame(cart, gameId) ==
  LET line == CHOOSE i \in 1..Len(cart) : getOriginalMenuItemId(cart[i].id) = gameId
  IN {cart[line].customFields[f] : f \in 1..Len(cart[line].customFields)}
PairsOfCart(cart) ==
  {<<getOriginalMenuItemId(cart[i].id),
     IF HasVariation(cart[i].selectedVariation) THEN cart[i].selectedVariation.id
     ELSE "default">> : i \in 1..Len(cart)}

\* The required fields of the active mode, by value key.
RequiredKeys(cart, useMultiple) ==
  IF ~useMultiple
  THEN IF GamesWithFields(cart) = {} THEN {"default_ign"}
       ELSE UNION {{singleKey(g, field.key) :
                      field \in {x \in FieldsOfGame(cart, g) : x.required}} :
                   g \in GamesWithFields(cart)}
  ELSE IF GamesWithFields(cart) = {}
       THEN {multiDefaultIgnKey(p[1], p[2]) : p \in PairsOfCart(cart)}
       ELSE UNION {{multiKey(p[1], p[2], field.key) :
                      field \in {x \in FieldsOfGame(cart, p[1]) : x.required}} :
                   p \in PairsOfCart(cart)}

\* A field is empty or whitespace-only.
Blank(values, valueKey) == valueKey \notin DOMAIN values \/ values[valueKey] \in {"", " "}

\* C14: in the details step the transition to payment is blocked if and only
\* if at least one required field of the active mode is empty or
\* whitespace-only.
C14_BlockedIffRequiredFieldBlank ==
  step = "details" =>
    ((~ENABLED ProceedToPayment)
       <=> \E valueKey \in RequiredKeys(cartItems, useMultipleAccounts) :
             Blank(customFieldValues, valueKey))

\* C14's case: in multiple-accounts mode one package's required field holds
\* only a blank while the other package's is filled.
C14_Witness ==
  /\ step = "details"
  /\ useMultipleAccounts
  /\ cartItems = CartBB
  /\ multiKey("gb", "p1", "uid") \in DOMAIN customFieldValues
  /\ customFieldValues[multiKey("gb", "p1", "uid")] = " "
  /\ multiKey("gb", "p2", "uid") \in DOMAIN customFieldValues
  /\ customFieldValues[multiKey("gb", "p2", "uid")] = "x"
  /\ multiKey("gb", "p2", "server") \notin DOMAIN customFieldValues

\* C17: switching the account mode in either direction clears all previously
\* entered field values.
C17_SwitchingModesClears ==
  [][\A checked \in BOOLEAN :
       ToggleMultipleAccounts(checked) => customFieldValues' = EmptyValues]_vars

C19_MultipleAccountsNeedsTwoPackages ==
  useMultipleAccounts =>
    \E i, j \in 1..Len(cartItems) :
      /\ getOriginalMenuItemId(cartItems[i].id) = getOriginalMenuItemId(cartItems[j].id)
      /\ HasVariation(cartItems[i].selectedVariation)
      /\ HasVariation(cartItems[j].selectedVariation)
      /\ cartItems[i].selectedVariation.id # cartItems[j].selectedVariation.id

\* C15: the checkout step only moves details -> payment -> summary one step
\* at a time: payment is entered from details only when the details are
\* valid, summary only from payment and only with a payment method selected,
\* and the step is never summary while no payment method is selected.
C15_StepsInOrder ==
  /\ step = "details"
  /\ [](step = "summary" => paymentMethod # "")
  /\ [][/\ (step = "details" /\ step' # "details") =>
             /\ step' = "payment"
             /\ \A valueKey \in RequiredKeys(cartItems, useMultipleAccounts) :
                  ~Blank(customFieldValues, valueKey)
        /\ (step # "summary" /\ step' = "summary") =>
             (step = "payment" /\ paymentMethod # "" /\ paymentMethod' # "")
        /\ (step = "summary" /\ step' # "summary") => step' = "payment"
       ]_vars

\* C15's case: the summary has been reached, through a details step with a
\* required field and a payment step.
C15_Witness ==
  /\ step = "summary"
  /\ paymentMethod = "maya"
  /\ cartItems = CartA
  /\ customFieldValues[singleKey("ga", "uid")] = "x"
  /\ existingOrderStatus = ""

\* C16: backward navigation (summary -> payment, payment -> details) leaves
\* the entered field values, the account mode, the selected payment method
\* and the uploaded receipt URL unchanged.
C16_BackLosesNoData ==
  [][((step = "summary" /\ step' = "payment") \/ (step = "payment" /\ step' = "details")) =>
       UNCHANGED <<customFieldValues, useMultipleAccounts, paymentMethod, receiptImageUrl>>
    ]_vars

\* C16's case: back at the details step from the summary, with values, the
\* multiple-accounts mode, a payment method and a receipt.
C16_Witness ==
  /\ step = "details"
  /\ useMultipleAccounts
  /\ DOMAIN customFieldValues # {}
  /\ paymentMethod = "gcash"
  /\ receiptImageUrl = "url"

\* The hand-off happens only with a payment method, a receipt URL, no upload
\* running and the message copied, and it creates no order and writes no
\* current_order_id.
HandOffGuarded ==
  [][messengerOpened' =>
       /\ orderOption = "order_via_messenger"
       /\ paymentMethod # ""
       /\ receiptImageUrl # ""
       /\ ~uploadingReceipt
       /\ hasCopiedMessage
       /\ UNCHANGED <<orders, storedOrderId, orderId, existingOrderId>>
    ]_vars

\* C20 as stated: the hand-off is guarded as above, and the has-copied flag is
\* one-way: once true it is never reset to false.
C20_CopyFlagOneWay ==
  /\ HandOffGuarded
  /\ [][hasCopiedMessage => hasCopiedMessage']_vars

\* C20 amended: the hand-off is guarded as above, and the has-copied flag,
\* once true, is reset to false only by removing the receipt.
C20_CopyFlagResetOnlyByReceiptRemoval ==
  /\ HandOffGuarded
  /\ [][(hasCopiedMessage /\ ~hasCopiedMessage') =>
          (receiptImageUrl' = "" /\ receiptPreview' = "" /\ receiptFile' = "")]_vars

\* C20's case: the message was copied and the hand-off made.
C20_Witness ==
  /\ messengerOpened
  /\ hasCopiedMessage
  /\ receiptImageUrl = "url"
  /\ paymentMethod # ""

\* The order-details line the claim gives a cart line.
ExpectedDetailsLine(line) ==
  LET lineTotal == line.totalPrice * line.quantity
      variationPart == IF line.selectedVariation = NoVariation THEN ""
                       ELSE " (" \o line.selectedVariation.name \o ")"
  IN "* " \o line.name \o variationPart \o " x" \o ToString(line.quantity)
     \o " - P" \o ToString(lineTotal)

\* C23: the generated order message has one order-details line per cart
\* line, in cart order, giving the item name, the variation name in
\* parentheses when a variation is selected, x<quantity> and the line total
\* (per-unit totalPrice x quantity), and a total line giving the cart total
\* passed to checkout; for the cart of one line {Game A, 100 Gems, quantity
\* 1, price 100} of a guest, the line total is 100 and the total is 100.
C23_OrderMessageLines ==
  orderMessage # NoMessage =>
    /\ Len(orderMessage.details) = Len(cartItems)
    /\ \A i \in 1..Len(cartItems) : orderMessage.details[i] = ExpectedDetailsLine(cartItems[i])
    /\ orderMessage.total = "TOTAL: P" \o ToString(checkoutTotalPrice)
    /\ (cartItems = CartA /\ currentMember = NoMember) =>
         /\ orderMessage.details = <<"* Game A (100 Gems) x1 - P100">>
         /\ orderMessage.total = "TOTAL: P100"

\* C23's case: the message of a three-line cart (a line of two units, a line
\* without a variation) was generated and copied.
C23_Witness ==
  /\ cartItems = CartAAC
  /\ hasCopiedMessage
  /\ orderMessage.details =
       <<"* Game C x1 - P0", "* Game A (500 Gems) x2 - P800", "* Game A (100 Gems) x1 - P100">>
  /\ orderMessage.total = "TOTAL: P900"
  /\ orderMessage.payment = "Payment: Maya"

\* The form holds what a rejected order's customer_info gives the cart: a
\* single-account entry under every field with its label (or under
\* default_ign when no game defines fields), an account of a 'Multiple
\* Accounts' list under the fields of the line with its game and package.
Prepopulated(cart, info, values, useMultiple) ==
  /\ info.kind = "single" =>
       /\ ~useMultiple
       /\ \A n \in 1..Len(info.entries) :
            LET label == info.entries[n][1]
                value == info.entries[n][2]
            IN label # "Payment Method" =>
                 IF GamesWithFields(cart) = {}
                 THEN label = "IGN" => (~Blank(values, "default_ign") /\ values["default_ign"] = value)
                 ELSE \A g \in GamesWithFields(cart) :
                        \A field \in FieldsOfGame(cart, g) :
                          field.label = label =>
                            /\ singleKey(g, field.key) \in DOMAIN values
                            /\ values[singleKey(g, field.key)] = value
  /\ info.kind = "multiple" =>
       /\ useMultiple
       /\ \A n \in 1..Len(info.accounts), i \in 1..Len(cart) :
            (/\ cart[i].name = info.accounts[n].game
             /\ cart[i].selectedVariation # NoVariation
             /\ cart[i].selectedVariation.name = info.accounts[n].package
             /\ cart[i].customFields # <<>>)
            => \A f \in 1..Len(cart[i].customFields) :
                 LET field == cart[i].customFields[f]
                     valueKey == multiKey(getOriginalMenuItemId(cart[i].id),
                                          cart[i].selectedVariation.id, field.key)
                 IN field.label \in DOMAIN info.accounts[n].fields =>
                      /\ valueKey \in DOMAIN values
                      /\ values[valueKey] = info.accounts[n].fields[field.label]

\* The order the running lookup is for, if the backend has it.
FetchedOrders == {o \in orders : o.id = orderCheck.id}

\* What C22 and its amended form share: an approved order clears the stored
\* id and the in-memory order reference; a rejected order pre-populates the
\* form; an order that is not found clears the stored id.
OrderLookupHandled(rejectedKeepsStoredId) ==
     \A failed \in BOOLEAN :
       (storedOrderId # "" /\ ExistingOrderFetched(failed)) =>
         IF failed \/ FetchedOrders = {}
         THEN storedOrderId' = ""
         ELSE \A o \in FetchedOrders :
                /\ o.status = "approved" =>
                     (storedOrderId' = "" /\ orderId' = "" /\ existingOrderId' = ""
                      /\ existingOrderStatus' = "")
                /\ o.status = "rejected" =>
                     /\ IF rejectedKeepsStoredId THEN storedOrderId' = storedOrderId
                        ELSE storedOrderId' = ""
                     /\ orderId' = o.id
                     /\ existingOrderId' = o.id
                     /\ existingOrderStatus' = "rejected"
                     /\ Prepopulated(cartItems, o.customer_info, customFieldValues',
                                     useMultipleAccounts')
                /\ o.status \in {"pending", "processing"} =>
                     (storedOrderId' = storedOrderId /\ orderId' = o.id)

GameFieldKeys(item) ==
  {singleKey(getOriginalMenuItemId(item.id), item.customFields[f].key) :
     f \in 1..Len(item.customFields)}
FieldKept(valueKey) ==
  /\ valueKey \in DOMAIN customFieldValues' <=> valueKey \in DOMAIN customFieldValues
  /\ valueKey \in DOMAIN customFieldValues =>
       customFieldValues'[valueKey] = customFieldValues[valueKey]
BulkGames ==
  {itemsWithCustomFields(cartItems)[n] : n \in 1..Len(itemsWithCustomFields(cartItems))}

\* A value typed into bulk field i goes to the i-th field of every selected
\* game that has one, under that game's own key, and no field of an
\* unselected game is written.
BulkFansOutByPosition ==
  \A fieldIndex \in BulkPositions, value \in BulkInputs :
    handleBulkInputChange(fieldIndex, value) =>
      \A item \in BulkGames :
        IF getOriginalMenuItemId(item.id) \in bulkSelectedGames
        THEN fieldIndex < Len(item.customFields) =>
               /\ singleKey(getOriginalMenuItemId(item.id),
                            item.customFields[fieldIndex + 1].key)
                    \in DOMAIN customFieldValues'
               /\ customFieldValues'[singleKey(getOriginalMenuItemId(item.id),
                                               item.customFields[fieldIndex + 1].key)] = value
        ELSE \A valueKey \in GameFieldKeys(item) : FieldKept(valueKey)

\* Ticking or unticking a game's checkbox is no edit of a bulk field: the
\* fields of the games that were and stay selected keep what they hold, the
\* bulk values or what the user typed into them since.
SelectionKeepsTypedValues ==
  \A n \in 1..Len(cartItems), checked \in BOOLEAN :
    handleBulkGameSelectionChange(cartItems[n].id, checked) =>
      \A item \in BulkGames :
        getOriginalMenuItemId(item.id) \in bulkSelectedGames \cap bulkSelectedGames' =>
          \A valueKey \in GameFieldKeys(item) : FieldKept(valueKey)

\* C27: bulk entry fans a value out by position to the selected games only,
\* and a value typed directly into a game's field afterwards is overwritten
\* only when the user edits a bulk field again.
C27_BulkFanOutLastWriteWins ==
  [][BulkFansOutByPosition /\ SelectionKeepsTypedValues]_vars

\* The fan-out alone, which holds.
C27_FanOutAlone == [][BulkFansOutByPosition]_vars

\* A createOrder request is made in this step.
OrderRequested == Len(createCalls') > Len(createCalls)

\* The Place Order handler cannot run and the mode toggle is disabled while
\* the looked-up order stays pending or processing.
SubmitAndToggleLocked ==
  (orderCheck.pc = "done" /\ fieldsDisabled /\ fieldsDisabled') =>
    ~OrderRequested /\ useMultipleAccounts' = useMultipleAccounts

\* The field values cannot be edited while the looked-up order stays pending
\* or processing.
FieldsLocked ==
  (orderCheck.pc = "done" /\ fieldsDisabled /\ fieldsDisabled') =>
    customFieldValues' = customFieldValues

\* C21: in direct-order mode, once the lookup of the stored order has
\* returned a pending or processing order and for as long as that status is
\* held, no order can be placed, the field values cannot be edited and the
\* account mode cannot be switched.
C21_PendingOrderLocksCheckout ==
  [][orderOption = "place_order" => SubmitAndToggleLocked /\ FieldsLocked]_vars

\* The submit and the toggle alone, which hold.
C21_SubmitAndToggleAlone == [][orderOption = "place_order" => SubmitAndToggleLocked]_vars

\* The stored current_order_id refers to a pending or processing order.
StoredOrderOpen ==
  \E o \in orders : o.id = storedOrderId /\ o.status \in {"pending", "processing"}

\* C30: in direct-order mode no createOrder request is made while the stored
\* current_order_id refers to a pending or processing order, the time of the
\* mount-time lookup included, and at most one createOrder request awaits
\* its answer.
C30_NoSecondOpenOrder ==
  /\ [][(orderOption = "place_order" /\ OrderRequested) => ~StoredOrderOpen]_vars
  /\ [](Len(createCalls) <= 1)

\* One request at a time alone, which holds.
C30_OneRequestAtATime == Len(createCalls) <= 1
\* No request once the lookup has answered, which holds.
C30_NoRequestAfterLookup ==
  [][(orderOption = "place_order" /\ OrderRequested /\ orderCheck.pc = "done")
       => ~StoredOrderOpen]_vars
====
